---- MODULE Spec2Model ----
(***************************************************************************)
(* Overdue-task pipeline of apps/api/src/tasks/overdue-scheduler.service.ts *)
(* (OverdueSchedulerService): the 15-minute scan detectOverdueTasks and the *)
(* daily scan sendDailyOverdueReminders, over a task table, a notification  *)
(* sink (createForUsers) and a real-time bus (emitToUser).                  *)
(*                                                                         *)
(* Every await of the source is one step of the model, so the two scans    *)
(* interleave at exactly the points where the event loop can switch.  A    *)
(* store read, a store write and a sink call may each throw; the throw is  *)
(* caught by the scan's try/catch and ends the run.  A run of one scan     *)
(* ends before the next run of the same scan starts; runs of the two scans *)
(* overlap freely, and either scan may start at any clock reading.  Rows   *)
(* are written by the scans only.  Timestamps are milliseconds; NULL       *)
(* stands for a null date, NoUser for a null user id.                      *)
(***************************************************************************)
EXTENDS Integers, Sequences, FiniteSets, TLC

VARIABLES
    tasks,          \* the task table: id -> row
    clock,          \* wall clock, ms
    pc15,           \* detectOverdueTasks: "idle" | "notify" | "update"
    now15,          \* its `now`
    batch15,        \* its `overdueTasks` (rows as read by findMany)
    i15,            \* position of its for-loop in batch15
    pcD,            \* sendDailyOverdueReminders: "idle" | "notify" | "update"
    nowD,
    batchD,
    iD,
    notifications,  \* sink: task id -> the createForUsers calls made for it
    emitted,        \* bus: task id -> the emitToUser calls made for it
    runs15,         \* history: number of detectOverdueTasks runs started
    runsD,          \* history: number of sendDailyOverdueReminders runs started
    outcome15,      \* history: how the last detectOverdueTasks run ended
    outcomeD,
    matched15,      \* history: ids matching the where clause of the last query
    matchedD,
    throws,         \* history: number of calls that threw
    fin,            \* input of the pure-function specification
    fout,           \* its output
    dailyUpdate,            \* table: update id -> row (there: the row exists)
    dailyUpdateAttachment,  \* table: attachment id -> row, in order of creation
    dailyUpdateRead,        \* table: the (updateId, userId) pairs
    stored,         \* storage: the storagePaths that hold a file
    req,            \* request slot -> the service call it is running
    res,            \* request slot -> outcome of the call it ran last
    calls           \* history: number of service calls started

vars == <<tasks, clock, pc15, now15, batch15, i15, pcD, nowD, batchD, iD,
          notifications, emitted, runs15, runsD, outcome15, outcomeD,
          matched15, matchedD, throws, fin, fout,
          dailyUpdate, dailyUpdateAttachment, dailyUpdateRead, stored, req, res, calls>>

duVars == <<dailyUpdate, dailyUpdateAttachment, dailyUpdateRead, stored, req, res, calls>>

schedVars == <<tasks, clock, pc15, now15, batch15, i15, pcD, nowD, batchD, iD,
               notifications, emitted, runs15, runsD, outcome15, outcomeD,
               matched15, matchedD, throws>>

-----------------------------------------------------------------------------
(* Bounds of the model *)

NumTasks == 3        \* rows of the task table
NumUsers == 3        \* user ids
MaxAssignments == 2  \* longest assignment list drawn by the pure specification
\* What happens to the pipeline in one behaviour: runs started, clock ticks
\* and store or sink calls that throw.
MaxEvents == 4

(* Program constants *)

\* `take: 100` of detectOverdueTasks and `take: 200` of
\* sendDailyOverdueReminders, both scaled down to 2 rows so that a table of
\* NumTasks rows can hold more matching rows than one run takes.  The scans
\* read the cap only through findMany, and are parametric in it.
Take15 == 2
TakeDaily == 2

DayMs == 1000 * 60 * 60 * 24      \* divisor of daysDiff
TickMs == 15 * 60 * 1000          \* period of the '0 */15 * * * *' cron
HourMs == 60 * 60 * 1000

NULL == 0 - 1
NoUser == "null"
Clock0 == 10 * DayMs

TaskIds == 1..NumTasks
Users == {"U" \o ToString(n) : n \in 1..NumUsers}
Excluded == {"completed", "cancelled"}

Min(a, b) == IF a < b THEN a ELSE b
Range(s) == {s[k] : k \in 1..Len(s)}

-----------------------------------------------------------------------------
(* The pure parts of the two scans *)

\* Mutant of SetAdd: an array push, which keeps duplicates.
SetAdd_noDedupe(s, x) == Append(s, x)

\* Set.prototype.add on a JS Set, which keeps insertion order: [...userIds]
\* lists the members in the order they were first added.
SetAdd(s, x) == IF x \in Range(s) THEN s ELSE Append(s, x)

RECURSIVE AddAll(_, _)
\* task.assignments.forEach((a) => userIds.add(a.userId))
AddAll(s, xs) == IF xs = <<>> THEN s ELSE AddAll(SetAdd(s, Head(xs)), Tail(xs))

\* Mutant of userIds15: the creator is left out.
userIds15_noCreator(task) ==
    LET s1 == IF task.assigneeUserId # NoUser THEN <<task.assigneeUserId>> ELSE <<>>
    IN  s1 \o SelectSeq(task.assignments, LAMBDA u : u \notin Range(s1))

\* detectOverdueTasks: assignee + creator + assignments
userIds15(task) ==
    LET s1 == IF task.assigneeUserId # NoUser
              THEN SetAdd(<<>>, task.assigneeUserId) ELSE <<>>
        s2 == IF task.createdById # NoUser THEN SetAdd(s1, task.createdById) ELSE s1
    IN  AddAll(s2, task.assignments)

\* Mutant of userIdsDaily: the creator is added, as in detectOverdueTasks.
userIdsDaily_withCreator(task) == userIds15(task)

\* sendDailyOverdueReminders: assignee + assignments
userIdsDaily(task) ==
    LET s1 == IF task.assigneeUserId # NoUser
              THEN SetAdd(<<>>, task.assigneeUserId) ELSE <<>>
    IN  AddAll(s1, task.assignments)

\* Math.ceil(a / b) for b > 0
Ceil(a, b) == 0 - ((0 - a) \div b)

\* Mutant of daysDiff: Math.round instead of Math.ceil.
daysDiff_round(now, dueDate) == (2 * (now - dueDate) + DayMs) \div (2 * DayMs)

\* Mutant of daysDiff: Math.floor instead of Math.ceil.
daysDiff_floor(now, dueDate) == (now - dueDate) \div DayMs

\* Math.ceil((now.getTime() - new Date(task.dueDate!).getTime()) / (1000*60*60*24))
daysDiff(now, dueDate) == Ceil(now - dueDate, DayMs)

-----------------------------------------------------------------------------
(* The task store *)

\* Mutant of where15: the lastOverdueNotifiedAt filter is missing.
where15_ignoresStamp(t, now) ==
    /\ t.isDeleted = FALSE
    /\ t.dueDate # NULL /\ t.dueDate < now
    /\ t.status \notin {"completed", "cancelled"}

\* Mutant of where15: the isDeleted filter is missing.
where15_ignoresDeleted(t, now) ==
    /\ t.dueDate # NULL /\ t.dueDate < now
    /\ t.status \notin {"completed", "cancelled"}
    /\ t.lastOverdueNotifiedAt = NULL

\* where-clause of detectOverdueTasks' findMany
where15(t, now) ==
    /\ t.isDeleted = FALSE
    /\ t.dueDate # NULL /\ t.dueDate < now
    /\ t.status \notin Excluded
    /\ t.lastOverdueNotifiedAt = NULL

\* Mutant of whereDaily: the lastOverdueNotifiedAt filter is missing.
whereDaily_ignoresStamp(t, now) ==
    /\ t.isDeleted = FALSE
    /\ t.dueDate # NULL /\ t.dueDate < now
    /\ t.status \notin {"completed", "cancelled"}

\* where-clause of sendDailyOverdueReminders' findMany
whereDaily(t, now) ==
    /\ t.isDeleted = FALSE
    /\ t.dueDate # NULL /\ t.dueDate < now
    /\ t.status \notin Excluded
    /\ t.lastOverdueNotifiedAt # NULL

Matching15(now) == {id \in TaskIds : where15(tasks[id], now)}
MatchingDaily(now) == {id \in TaskIds : whereDaily(tasks[id], now)}

\* Mutant of findMany: `take` is ignored, every matching row is returned.
findMany_noTake(matching, take) ==
    LET n == Cardinality(matching)
    IN  {[k \in 1..n |-> tasks[ids[k]]] :
            ids \in {f \in [1..n -> matching] :
                        \A a, b \in 1..n : a # b => f[a] # f[b]}}

\* prisma.task.findMany({where, take}) with no orderBy: any `take` of the
\* matching rows (all of them when fewer match), in any order.
findMany(matching, take) ==
    LET n == Min(take, Cardinality(matching))
    IN  {[k \in 1..n |-> tasks[ids[k]]] :
            ids \in {f \in [1..n -> matching] :
                        \A a, b \in 1..n : a # b => f[a] # f[b]}}

\* prisma.task.update({where: {id}, data: {lastOverdueNotifiedAt: now}})
update(id, now) == [tasks EXCEPT ![id].lastOverdueNotifiedAt = now]

Ids(batch) == {batch[k].id : k \in 1..Len(batch)}

\* events so far: runs started, ticks elapsed, calls that threw
Events == runs15 + runsD + throws + (clock - Clock0) \div TickMs

-----------------------------------------------------------------------------
(* DailyUpdatesService (daily-updates.service.ts): files and their          *)
(* validation.  A file name is a sequence of characters.                   *)

NumUpdates == 2      \* ids of the dailyUpdate table
MaxCalls == 2        \* service calls started in one behaviour

\* this.maxFilesPerUpdate = 10, scaled down to 2 so that the few files of a
\* behaviour reach it.  The service is parametric in it.
maxFilesPerUpdate == 2

\* MAX_UPLOAD_MB (default 25) * 1024 * 1024
maxFileSize == 25 * 1024 * 1024

ALLOWED_EXTENSIONS ==
    {".xlsx", ".xls", ".docx", ".doc", ".pptx", ".ppt", ".pdf", ".png", ".jpg",
     ".jpeg", ".webp", ".txt", ".csv", ".zip"}

BLOCKED_EXTENSIONS ==
    {".exe", ".js", ".sh", ".bat", ".dll", ".apk", ".cmd", ".com", ".msi", ".ps1",
     ".vbs", ".wsf", ".scr", ".pif"}

ALLOWED_MIMES ==
    {"application/vnd.openxmlformats-officedocument.spreadsheetml.sheet",
     "application/vnd.ms-excel",
     "application/vnd.openxmlformats-officedocument.wordprocessingml.document",
     "application/msword",
     "application/vnd.openxmlformats-officedocument.presentationml.presentation",
     "application/vnd.ms-powerpoint",
     "application/pdf",
     "image/png", "image/jpeg", "image/webp",
     "text/plain", "text/csv",
     "application/zip", "application/x-zip-compressed",
     "application/octet-stream"}

UpperCase == <<"A", "B", "C", "D", "E", "F", "G", "H", "I", "J", "K", "L", "M",
               "N", "O", "P", "Q", "R", "S", "T", "U", "V", "W", "X", "Y", "Z">>
LowerCase == <<"a", "b", "c", "d", "e", "f", "g", "h", "i", "j", "k", "l", "m",
               "n", "o", "p", "q", "r", "s", "t", "u", "v", "w", "x", "y", "z">>

\* String.prototype.toLowerCase, on a sequence of characters
toLowerCase(str) ==
    [k \in 1..Len(str) |->
        IF \E j \in 1..Len(UpperCase) : UpperCase[j] = str[k]
        THEN LowerCase[CHOOSE j \in 1..Len(UpperCase) : UpperCase[j] = str[k]]
        ELSE str[k]]

\* path.extname of a name without directories: from the last "." on, and
\* empty when there is no "." or the only "." is the first character
extname(name) ==
    LET dots == {k \in 1..Len(name) : name[k] = "."}
    IN  IF dots = {} THEN <<>>
        ELSE LET last == CHOOSE k \in dots : \A j \in dots : j <= k
             IN  IF last = 1 THEN <<>> ELSE SubSeq(name, last, Len(name))

RECURSIVE Join(_)
\* the string made of the characters
Join(str) == IF str = <<>> THEN "" ELSE Head(str) \o Join(Tail(str))

\* validateFile(file): the exception it throws, or "ok"
validateFile(file) ==
    LET ext == Join(toLowerCase(extname(file.originalname)))
    IN  IF ext \in BLOCKED_EXTENSIONS THEN "BadRequest"
        ELSE IF ext \notin ALLOWED_EXTENSIONS THEN "BadRequest"
        ELSE IF file.size > maxFileSize THEN "BadRequest"
        ELSE "ok"

\* Mutant of validateFiles: only the first file is validated before the
\* uploads start.
validateFiles_firstOnly(files) ==
    IF files # <<>> /\ validateFile(files[1]) # "ok" THEN "BadRequest" ELSE "ok"

\* for (const file of files) this.validateFile(file)
validateFiles(files) ==
    IF \E k \in 1..Len(files) : validateFile(files[k]) # "ok" THEN "BadRequest" ELSE "ok"

\* The files a client sends.
Report ==        \* upper-case extension, exactly the size cap
    [originalname |-> <<"R", ".", "P", "D", "F">>, mimetype |-> "application/pdf",
     size |-> maxFileSize]
Page ==          \* allowed extension, MIME type outside ALLOWED_MIMES
    [originalname |-> <<"h", ".", "p", "d", "f">>, mimetype |-> "text/html",
     size |-> 1024]
Tool ==          \* blocked extension
    [originalname |-> <<"t", ".", "E", "x", "e">>, mimetype |-> "application/octet-stream",
     size |-> 1024]
Drawing ==       \* extension in neither list
    [originalname |-> <<"d", ".", "s", "v", "g">>, mimetype |-> "image/svg+xml",
     size |-> 1024]
Scan ==          \* one byte above the size cap
    [originalname |-> <<"s", ".", "p", "d", "f">>, mimetype |-> "application/pdf",
     size |-> maxFileSize + 1]

Files == {Report, Page, Tool, Drawing, Scan}

\* The file lists of a request: one file, a valid file followed by any file,
\* and valid files one more than maxFilesPerUpdate.
FileLists ==
    {<<f>> : f \in Files}
    \cup {<<Report, f>> : f \in Files}
    \cup {[k \in 1..(maxFilesPerUpdate + 1) |-> Report]}

UpdateIds == 1..NumUpdates
Readers == {"U1", "U2"}
Procs == {"A", "B"}

\* A request slot at rest, and a slot that has not answered.
NoCall ==
    [op |-> "none", pc |-> "idle", id |-> 0, userId |-> NoUser, userRole |-> "",
     files |-> <<>>, k |-> 0, n |-> 0, flag |-> FALSE, ids |-> {}, path |-> <<>>,
     late |-> FALSE, call |-> 0]
NoAnswer ==
    [op |-> "none", id |-> 0, userId |-> NoUser, files |-> <<>>, late |-> FALSE,
     call |-> 0, status |-> "", value |-> 0, ids |-> {}]

NoRow == [there |-> FALSE, isDeleted |-> FALSE, pinned |-> FALSE, authorId |-> NoUser,
          editHistory |-> 0]

\* The service with no request, on empty tables.
InitNoRequests ==
    /\ dailyUpdate = [id \in UpdateIds |-> NoRow]
    /\ dailyUpdateAttachment = <<>>
    /\ dailyUpdateRead = {}
    /\ stored = {}
    /\ req = [p \in Procs |-> NoCall]
    /\ res = [p \in Procs |-> NoAnswer]
    /\ calls = 0

-----------------------------------------------------------------------------
(* Initial task table *)

U(n) == "U" \o ToString(((n - 1) % NumUsers) + 1)

\* Recipient fields of row id: the rows differ in who is responsible for them.
Shape(id) ==
    LET k == (id - 1) % 4
    IN  IF k = 0 THEN [assigneeUserId |-> U(1), createdById |-> U(1),
                       assignments |-> <<U(2), U(3)>>]
        ELSE IF k = 1 THEN [assigneeUserId |-> NoUser, createdById |-> NoUser,
                            assignments |-> <<>>]
        ELSE IF k = 2 THEN [assigneeUserId |-> NoUser, createdById |-> U(2),
                            assignments |-> <<>>]
        ELSE [assigneeUserId |-> U(2), createdById |-> U(3),
              assignments |-> <<U(2), U(1)>>]

Overdue == [dueDate |-> Clock0 - 50 * HourMs, status |-> "in_progress", isDeleted |-> FALSE]

\* Due exactly at the first tick: not yet overdue then, overdue from the
\* second tick on.
DueAtStart == [dueDate |-> Clock0, status |-> "pending", isDeleted |-> FALSE]

\* Overdue for exactly one day at the first tick.
OverdueOneDay == [dueDate |-> Clock0 - DayMs, status |-> "in_progress", isDeleted |-> FALSE]

\* Rows out of the reach of both queries.
Others ==
    { [dueDate |-> Clock0 - DayMs, status |-> "completed", isDeleted |-> FALSE],
      [dueDate |-> Clock0 - DayMs, status |-> "cancelled", isDeleted |-> FALSE],
      [dueDate |-> Clock0 - DayMs, status |-> "in_progress", isDeleted |-> TRUE],
      [dueDate |-> NULL, status |-> "pending", isDeleted |-> FALSE] }

With(id, sit) == [x \in TaskIds |-> IF x = id THEN sit ELSE Overdue]

\* A row without dueDate.
Undated == [dueDate |-> NULL, status |-> "pending", isDeleted |-> FALSE]

\* The first row overdue for one day, the other rows undated.
OneDayTable == [x \in TaskIds |-> IF x = 1 THEN OverdueOneDay ELSE Undated]

\* The tables the model starts from: every row overdue for 50 hours, or all
\* but the last row, which is due at the first tick or out of reach; and
\* the table of the one-day row.
Tables ==
    {[id \in TaskIds |-> Overdue], OneDayTable, With(NumTasks, DueAtStart)}
    \cup {With(NumTasks, o) : o \in Others}

Row(id, sit) ==
    [id |-> id, dueDate |-> sit.dueDate, status |-> sit.status,
     isDeleted |-> sit.isDeleted, lastOverdueNotifiedAt |-> NULL,
     assigneeUserId |-> Shape(id).assigneeUserId,
     createdById |-> Shape(id).createdById,
     assignments |-> Shape(id).assignments]

NoInput == [assigneeUserId |-> NoUser, createdById |-> NoUser, assignments |-> <<>>,
            dueDate |-> Clock0, now |-> Clock0]
NoOutput == [done |-> {}, userIds15 |-> <<>>, userIdsDaily |-> <<>>, daysDiff |-> 0]

InitRuns ==
    /\ clock = Clock0
    /\ pc15 = "idle" /\ now15 = Clock0 /\ batch15 = <<>> /\ i15 = 1
    /\ pcD = "idle" /\ nowD = Clock0 /\ batchD = <<>> /\ iD = 1
    /\ notifications = [id \in TaskIds |-> <<>>]
    /\ emitted = [id \in TaskIds |-> <<>>]
    /\ runs15 = 0 /\ runsD = 0
    /\ outcome15 = "none" /\ outcomeD = "none"
    /\ matched15 = {} /\ matchedD = {}
    /\ throws = 0

Init ==
    /\ \E table \in Tables : tasks = [id \in TaskIds |-> Row(id, table[id])]
    /\ InitRuns /\ InitNoRequests
    /\ fin = NoInput /\ fout = NoOutput

-----------------------------------------------------------------------------
(* detectOverdueTasks, @Cron('0 */15 * * * *') *)

\* payload of the 'Task Overdue' notification, as far as the model reads it
call15(task, ok) ==
    [title |-> "Task Overdue", userIds |-> userIds15(task), daysDiff |-> NULL,
     run |-> runs15, ok |-> ok]

\* Mutant of emits15: one event per assignee, creator and assignment row,
\* emitted from the task's fields and not from the deduplicated set.
emits15_perField(task) ==
    LET raw == (IF task.assigneeUserId # NoUser THEN <<task.assigneeUserId>> ELSE <<>>)
               \o (IF task.createdById # NoUser THEN <<task.createdById>> ELSE <<>>)
               \o task.assignments
    IN  [k \in 1..Len(raw) |-> [userId |-> raw[k], run |-> runs15]]

\* userIds.forEach((uid) => this.events.emitToUser(uid, 'notification.new', ...))
emits15(task) ==
    [k \in 1..Len(userIds15(task)) |-> [userId |-> userIds15(task)[k], run |-> runs15]]

\* const now = new Date(); const overdueTasks = await findMany(...);
\* if (overdueTasks.length === 0) return;
detectOverdueTasks_findMany ==
    /\ pc15 = "idle" /\ Events < MaxEvents
    /\ runs15' = runs15 + 1
    /\ now15' = clock
    /\ matched15' = Matching15(clock)
    /\ \E rows \in findMany(Matching15(clock), Take15) :
          /\ batch15' = rows
          /\ i15' = 1
          /\ IF Len(rows) = 0
             THEN pc15' = "idle" /\ outcome15' = "returned"
             ELSE pc15' = "notify" /\ outcome15' = "running"
    /\ UNCHANGED <<tasks, clock, pcD, nowD, batchD, iD, notifications, emitted,
                   runsD, outcomeD, matchedD, throws, fin, fout, duVars>>

\* Mutant of detectOverdueTasks_findManyThrows: no try/catch, the rejection
\* reaches the timer and the job is not run again.
detectOverdueTasks_findManyThrows_escapes ==
    /\ Events < MaxEvents /\ throws' = throws + 1
    /\ pc15 = "idle"
    /\ runs15' = runs15 + 1
    /\ now15' = clock
    /\ matched15' = {}
    /\ batch15' = <<>> /\ i15' = 1
    /\ pc15' = "crashed" /\ outcome15' = "error"
    /\ UNCHANGED <<tasks, clock, pcD, nowD, batchD, iD, notifications, emitted,
                   runsD, outcomeD, matchedD, fin, fout, duVars>>

\* findMany throws: caught at line 80, the run ends
detectOverdueTasks_findManyThrows ==
    /\ Events < MaxEvents /\ throws' = throws + 1
    /\ pc15 = "idle" /\ Events < MaxEvents
    /\ runs15' = runs15 + 1
    /\ now15' = clock
    /\ matched15' = {}
    /\ batch15' = <<>> /\ i15' = 1
    /\ pc15' = "idle" /\ outcome15' = "error"
    /\ UNCHANGED <<tasks, clock, pcD, nowD, batchD, iD, notifications, emitted,
                   runsD, outcomeD, matchedD, fin, fout, duVars>>

\* Mutant of detectOverdueTasks_createForUsers: the loop does not wait for
\* the stamp write of a task before it dispatches the notification of the
\* next task of the batch.
detectOverdueTasks_createForUsers_ahead ==
    /\ pc15 = "notify"
    /\ LET task == batch15[i15]
           mine == IF Len(userIds15(task)) > 0
                   THEN [notifications EXCEPT
                           ![task.id] = Append(@, call15(task, TRUE))]
                   ELSE notifications
       IN  /\ notifications' =
                 IF i15 < Len(batch15) /\ Len(userIds15(batch15[i15 + 1])) > 0
                 THEN [mine EXCEPT ![batch15[i15 + 1].id] =
                                      Append(@, call15(batch15[i15 + 1], TRUE))]
                 ELSE mine
           /\ emitted' = IF Len(userIds15(task)) > 0
                         THEN [emitted EXCEPT ![task.id] = @ \o emits15(task)]
                         ELSE emitted
    /\ pc15' = "update"
    /\ UNCHANGED <<tasks, clock, now15, batch15, i15, pcD, nowD, batchD, iD,
                   runs15, runsD, outcome15, outcomeD, matched15, matchedD, throws, fin, fout, duVars>>

\* if (userIds.size > 0) { await createForUsers([...userIds], ...); emit... }
detectOverdueTasks_createForUsers ==
    /\ pc15 = "notify"
    /\ LET task == batch15[i15]
       IN  IF Len(userIds15(task)) > 0
           THEN /\ notifications' = [notifications EXCEPT
                                       ![task.id] = Append(@, call15(task, TRUE))]
                /\ emitted' = [emitted EXCEPT ![task.id] = @ \o emits15(task)]
           ELSE UNCHANGED <<notifications, emitted>>
    /\ pc15' = "update"
    /\ UNCHANGED <<tasks, clock, now15, batch15, i15, pcD, nowD, batchD, iD,
                   runs15, runsD, outcome15, outcomeD, matched15, matchedD, throws, fin, fout, duVars>>

\* Mutant of detectOverdueTasks_createForUsersThrows: a try/catch around the
\* sink call alone, so that the loop goes on to the stamp write of the task.
detectOverdueTasks_createForUsersThrows_caughtPerTask ==
    /\ Events < MaxEvents /\ throws' = throws + 1
    /\ pc15 = "notify"
    /\ LET task == batch15[i15]
       IN  /\ Len(userIds15(task)) > 0
           /\ notifications' = [notifications EXCEPT
                                  ![task.id] = Append(@, call15(task, FALSE))]
    /\ pc15' = "update"
    /\ UNCHANGED <<tasks, clock, now15, batch15, i15, pcD, nowD, batchD, iD, emitted,
                   runs15, runsD, outcome15, outcomeD, matched15, matchedD, fin, fout, duVars>>

\* createForUsers throws: nothing is emitted, the stamp is not written
detectOverdueTasks_createForUsersThrows ==
    /\ Events < MaxEvents /\ throws' = throws + 1
    /\ pc15 = "notify"
    /\ LET task == batch15[i15]
       IN  /\ Len(userIds15(task)) > 0
           /\ notifications' = [notifications EXCEPT
                                  ![task.id] = Append(@, call15(task, FALSE))]
    /\ pc15' = "idle" /\ outcome15' = "error"
    /\ UNCHANGED <<tasks, clock, now15, batch15, i15, pcD, nowD, batchD, iD, emitted,
                   runs15, runsD, outcomeD, matched15, matchedD, fin, fout, duVars>>

\* Mutant of detectOverdueTasks_update: the row read by findMany is written
\* back whole, with the stamp set, so that what was written to the row since
\* the read is lost.
detectOverdueTasks_update_writesRow ==
    /\ pc15 = "update"
    /\ tasks' = [tasks EXCEPT ![batch15[i15].id] =
                     [batch15[i15] EXCEPT !.lastOverdueNotifiedAt = now15]]
    /\ i15' = i15 + 1
    /\ IF i15 = Len(batch15)
       THEN pc15' = "idle" /\ outcome15' = "completed"
       ELSE pc15' = "notify" /\ UNCHANGED outcome15
    /\ UNCHANGED <<clock, now15, batch15, pcD, nowD, batchD, iD, notifications, emitted,
                   runs15, runsD, outcomeD, matched15, matchedD, throws, fin, fout, duVars>>

\* Mutant of detectOverdueTasks_update: the stamp is written inside the
\* `if (userIds.size > 0)` block, so only notified tasks are stamped.
detectOverdueTasks_update_onlyIfNotified ==
    /\ pc15 = "update"
    /\ IF Len(userIds15(batch15[i15])) > 0
       THEN tasks' = update(batch15[i15].id, now15)
       ELSE UNCHANGED tasks
    /\ i15' = i15 + 1
    /\ IF i15 = Len(batch15)
       THEN pc15' = "idle" /\ outcome15' = "completed"
       ELSE pc15' = "notify" /\ UNCHANGED outcome15
    /\ UNCHANGED <<clock, now15, batch15, pcD, nowD, batchD, iD, notifications, emitted,
                   runs15, runsD, outcomeD, matched15, matchedD, throws, fin, fout, duVars>>

\* Mutant of detectOverdueTasks_update: the stamp of the last task of a
\* batch is not written.
detectOverdueTasks_update_skipsLast ==
    /\ pc15 = "update"
    /\ IF i15 = Len(batch15)
       THEN UNCHANGED tasks
       ELSE tasks' = update(batch15[i15].id, now15)
    /\ i15' = i15 + 1
    /\ IF i15 = Len(batch15)
       THEN pc15' = "idle" /\ outcome15' = "completed"
       ELSE pc15' = "notify" /\ UNCHANGED outcome15
    /\ UNCHANGED <<clock, now15, batch15, pcD, nowD, batchD, iD, notifications, emitted,
                   runs15, runsD, outcomeD, matched15, matchedD, throws, fin, fout, duVars>>

\* await this.prisma.task.update({ where: { id: task.id }, data: { lastOverdueNotifiedAt: now } })
detectOverdueTasks_update ==
    /\ pc15 = "update"
    /\ tasks' = update(batch15[i15].id, now15)
    /\ i15' = i15 + 1
    /\ IF i15 = Len(batch15)
       THEN pc15' = "idle" /\ outcome15' = "completed"
       ELSE pc15' = "notify" /\ UNCHANGED outcome15
    /\ UNCHANGED <<clock, now15, batch15, pcD, nowD, batchD, iD, notifications, emitted,
                   runs15, runsD, outcomeD, matched15, matchedD, throws, fin, fout, duVars>>

\* Mutant of detectOverdueTasks_updateThrows: the batch runs in a transaction
\* that the throw rolls back, undoing the stamps this run wrote.
detectOverdueTasks_updateThrows_rollback ==
    /\ Events < MaxEvents /\ throws' = throws + 1
    /\ pc15 = "update"
    /\ pc15' = "idle" /\ outcome15' = "error"
    /\ tasks' = [id \in TaskIds |->
                   IF id \in {batch15[k].id : k \in 1..(i15 - 1)}
                   THEN [tasks[id] EXCEPT !.lastOverdueNotifiedAt = NULL]
                   ELSE tasks[id]]
    /\ UNCHANGED <<clock, now15, batch15, i15, pcD, nowD, batchD, iD,
                   notifications, emitted, runs15, runsD, outcomeD, matched15,
                   matchedD, fin, fout, duVars>>

\* Mutant of detectOverdueTasks_updateThrows: the write reached the store
\* before the call rejected, so the row is stamped all the same.
detectOverdueTasks_updateThrows_committed ==
    /\ Events < MaxEvents /\ throws' = throws + 1
    /\ pc15 = "update"
    /\ pc15' = "idle" /\ outcome15' = "error"
    /\ tasks' = update(batch15[i15].id, now15)
    /\ UNCHANGED <<clock, now15, batch15, i15, pcD, nowD, batchD, iD,
                   notifications, emitted, runs15, runsD, outcomeD, matched15,
                   matchedD, fin, fout, duVars>>

\* update throws: the row keeps its value, the run ends
detectOverdueTasks_updateThrows ==
    /\ Events < MaxEvents /\ throws' = throws + 1
    /\ pc15 = "update"
    /\ pc15' = "idle" /\ outcome15' = "error"
    /\ UNCHANGED <<tasks, clock, now15, batch15, i15, pcD, nowD, batchD, iD,
                   notifications, emitted, runs15, runsD, outcomeD, matched15,
                   matchedD, fin, fout, duVars>>

-----------------------------------------------------------------------------
(* sendDailyOverdueReminders, @Cron('0 6 * * *') *)

\* payload of the 'Overdue Reminder' notification, as far as the model reads it
callDaily(task, ok) ==
    [title |-> "Overdue Reminder", userIds |-> userIdsDaily(task),
     daysDiff |-> daysDiff(nowD, task.dueDate), run |-> runsD, ok |-> ok]

\* const now = new Date(); const overdueTasks = await findMany(...);
\* if (overdueTasks.length === 0) return;
sendDailyOverdueReminders_findMany ==
    /\ pcD = "idle" /\ Events < MaxEvents
    /\ runsD' = runsD + 1
    /\ nowD' = clock
    /\ matchedD' = MatchingDaily(clock)
    /\ \E rows \in findMany(MatchingDaily(clock), TakeDaily) :
          /\ batchD' = rows
          /\ iD' = 1
          /\ IF Len(rows) = 0
             THEN pcD' = "idle" /\ outcomeD' = "returned"
             ELSE pcD' = "notify" /\ outcomeD' = "running"
    /\ UNCHANGED <<tasks, clock, pc15, now15, batch15, i15, notifications, emitted,
                   runs15, outcome15, matched15, throws, fin, fout, duVars>>

\* findMany throws: caught at line 136, the run ends
sendDailyOverdueReminders_findManyThrows ==
    /\ Events < MaxEvents /\ throws' = throws + 1
    /\ pcD = "idle" /\ Events < MaxEvents
    /\ runsD' = runsD + 1
    /\ nowD' = clock
    /\ matchedD' = {}
    /\ batchD' = <<>> /\ iD' = 1
    /\ pcD' = "idle" /\ outcomeD' = "error"
    /\ UNCHANGED <<tasks, clock, pc15, now15, batch15, i15, notifications, emitted,
                   runs15, outcome15, matched15, fin, fout, duVars>>

\* Mutant of sendDailyOverdueReminders_createForUsers: one sink call per
\* recipient instead of one per task.
sendDailyOverdueReminders_createForUsers_perUser ==
    /\ pcD = "notify"
    /\ LET task == batchD[iD]
           uids == userIdsDaily(task)
       IN  notifications' =
             [notifications EXCEPT
                ![task.id] = @ \o [k \in 1..Len(uids) |->
                                     [callDaily(task, TRUE) EXCEPT !.userIds = <<uids[k]>>]]]
    /\ pcD' = "update"
    /\ UNCHANGED <<tasks, clock, pc15, now15, batch15, i15, nowD, batchD, iD, emitted,
                   runs15, runsD, outcome15, outcomeD, matched15, matchedD, throws, fin, fout, duVars>>

\* Mutant of sendDailyOverdueReminders_createForUsers: reminders are
\* deduplicated, a task that has a reminder already gets no other.
sendDailyOverdueReminders_createForUsers_deduped ==
    /\ pcD = "notify"
    /\ LET task == batchD[iD]
           had == SelectSeq(notifications[task.id],
                            LAMBDA c : c.title = "Overdue Reminder" /\ c.ok)
       IN  IF Len(userIdsDaily(task)) > 0 /\ had = <<>>
           THEN notifications' = [notifications EXCEPT
                                    ![task.id] = Append(@, callDaily(task, TRUE))]
           ELSE UNCHANGED notifications
    /\ pcD' = "update"
    /\ UNCHANGED <<tasks, clock, pc15, now15, batch15, i15, nowD, batchD, iD, emitted,
                   runs15, runsD, outcome15, outcomeD, matched15, matchedD, throws, fin, fout, duVars>>

\* if (userIds.size > 0) { const daysDiff = ...; await createForUsers(...) }
sendDailyOverdueReminders_createForUsers ==
    /\ pcD = "notify"
    /\ LET task == batchD[iD]
       IN  IF Len(userIdsDaily(task)) > 0
           THEN notifications' = [notifications EXCEPT
                                    ![task.id] = Append(@, callDaily(task, TRUE))]
           ELSE UNCHANGED notifications
    /\ pcD' = "update"
    /\ UNCHANGED <<tasks, clock, pc15, now15, batch15, i15, nowD, batchD, iD, emitted,
                   runs15, runsD, outcome15, outcomeD, matched15, matchedD, throws, fin, fout, duVars>>

\* createForUsers throws: the stamp is not written
sendDailyOverdueReminders_createForUsersThrows ==
    /\ Events < MaxEvents /\ throws' = throws + 1
    /\ pcD = "notify"
    /\ LET task == batchD[iD]
       IN  /\ Len(userIdsDaily(task)) > 0
           /\ notifications' = [notifications EXCEPT
                                  ![task.id] = Append(@, callDaily(task, FALSE))]
    /\ pcD' = "idle" /\ outcomeD' = "error"
    /\ UNCHANGED <<tasks, clock, pc15, now15, batch15, i15, nowD, batchD, iD, emitted,
                   runs15, runsD, outcome15, matched15, matchedD, fin, fout, duVars>>

\* Mutant of sendDailyOverdueReminders_update: the write clears the stamp
\* instead of refreshing it.
sendDailyOverdueReminders_update_clears ==
    /\ pcD = "update"
    /\ tasks' = update(batchD[iD].id, NULL)
    /\ iD' = iD + 1
    /\ IF iD = Len(batchD)
       THEN pcD' = "idle" /\ outcomeD' = "completed"
       ELSE pcD' = "notify" /\ UNCHANGED outcomeD
    /\ UNCHANGED <<clock, pc15, now15, batch15, i15, nowD, batchD, notifications,
                   emitted, runs15, runsD, outcome15, matched15, matchedD, throws, fin, fout, duVars>>

\* await this.prisma.task.update({ where: { id: task.id }, data: { lastOverdueNotifiedAt: now } })
sendDailyOverdueReminders_update ==
    /\ pcD = "update"
    /\ tasks' = update(batchD[iD].id, nowD)
    /\ iD' = iD + 1
    /\ IF iD = Len(batchD)
       THEN pcD' = "idle" /\ outcomeD' = "completed"
       ELSE pcD' = "notify" /\ UNCHANGED outcomeD
    /\ UNCHANGED <<clock, pc15, now15, batch15, i15, nowD, batchD, notifications,
                   emitted, runs15, runsD, outcome15, matched15, matchedD, throws, fin, fout, duVars>>

\* update throws: the row keeps its value, the run ends
sendDailyOverdueReminders_updateThrows ==
    /\ Events < MaxEvents /\ throws' = throws + 1
    /\ pcD = "update"
    /\ pcD' = "idle" /\ outcomeD' = "error"
    /\ UNCHANGED <<tasks, clock, pc15, now15, batch15, i15, nowD, batchD, iD,
                   notifications, emitted, runs15, runsD, outcome15, matched15,
                   matchedD, fin, fout, duVars>>

-----------------------------------------------------------------------------
(* Time *)

\* The cron ticks are 15 minutes apart; both scans read the clock only when
\* they start (new Date()).
Tick ==
    /\ Events < MaxEvents
    /\ clock' = clock + TickMs
    /\ UNCHANGED <<tasks, pc15, now15, batch15, i15, pcD, nowD, batchD, iD,
                   notifications, emitted, runs15, runsD, outcome15, outcomeD,
                   matched15, matchedD, throws, fin, fout, duVars>>

Next ==
    \/ detectOverdueTasks_findMany
    \/ detectOverdueTasks_findManyThrows
    \/ detectOverdueTasks_createForUsers
    \/ detectOverdueTasks_createForUsersThrows
    \/ detectOverdueTasks_update
    \/ detectOverdueTasks_updateThrows
    \/ sendDailyOverdueReminders_findMany
    \/ sendDailyOverdueReminders_findManyThrows
    \/ sendDailyOverdueReminders_createForUsers
    \/ sendDailyOverdueReminders_createForUsersThrows
    \/ sendDailyOverdueReminders_update
    \/ sendDailyOverdueReminders_updateThrows
    \/ Tick

Spec == Init /\ [][Next]_vars

-----------------------------------------------------------------------------
(* The pipeline next to a user who edits the rows it has selected *)

\* STATUS_FLOW of the task card: the statuses a user can move a task to.
STATUS_FLOW(status) ==
    IF status = "pending" THEN {"in_progress"}
    ELSE IF status = "in_progress" THEN {"under_review", "completed", "delayed"}
    ELSE IF status = "under_review" THEN {"completed", "in_progress"}
    ELSE IF status = "delayed" THEN {"in_progress", "completed"}
    ELSE {}

\* The rows a running scan is at, not yet stamped by it, and still with the
\* status the scan read.
Selected ==
    (IF pc15 # "idle" /\ tasks[batch15[i15].id].status = batch15[i15].status
     THEN {batch15[i15].id} ELSE {})
    \cup (IF pcD # "idle" /\ tasks[batchD[iD].id].status = batchD[iD].status
          THEN {batchD[iD].id} ELSE {})

\* handleStatusChange of the task card, tasksApi.updateStatus(task.id,
\* newStatus): the status of one row is set to a status its flow allows.
\* The edits modelled are the ones that race with a scan: to the row a
\* running scan has read and not yet stamped, once per read.
handleStatusChange ==
    /\ \E id \in Selected : \E newStatus \in STATUS_FLOW(tasks[id].status) :
          tasks' = [tasks EXCEPT ![id].status = newStatus]
    /\ UNCHANGED <<clock, pc15, now15, batch15, i15, pcD, nowD, batchD, iD,
                   notifications, emitted, runs15, runsD, outcome15, outcomeD,
                   matched15, matchedD, throws, fin, fout, duVars>>

\* The first and the last row overdue for 50 hours, the other rows undated.
EditTable == [x \in TaskIds |-> IF x \in {1, NumTasks} THEN Overdue ELSE Undated]

InitEdit ==
    /\ tasks = [id \in TaskIds |-> Row(id, EditTable[id])]
    /\ InitRuns /\ InitNoRequests
    /\ fin = NoInput /\ fout = NoOutput

NextEdit ==
    \/ Next
    \/ handleStatusChange

SpecEdit == InitEdit /\ [][NextEdit]_vars

-----------------------------------------------------------------------------
(* The pipeline with the store answering a query some time after the scan  *)
(* read the clock.  `const now = new Date()` runs when the scan starts;    *)
(* the query it then awaits is answered by the store at a later moment, on *)
(* the rows the store holds at that moment, and the other scan may run in  *)
(* between.  A scan that has read the clock and waits for its rows is at   *)
(* "query".                                                                 *)

\* const now = new Date(); the findMany call is sent
detectOverdueTasks_now ==
    /\ pc15 = "idle" /\ Events < MaxEvents
    /\ runs15' = runs15 + 1
    /\ now15' = clock
    /\ pc15' = "query" /\ outcome15' = "running"
    /\ UNCHANGED <<tasks, clock, batch15, i15, pcD, nowD, batchD, iD, notifications,
                   emitted, runsD, outcomeD, matched15, matchedD, throws, fin, fout, duVars>>

\* the store answers: const overdueTasks = await findMany({where: {...,
\* dueDate: {lt: now}, ...}, take: 100}); if (overdueTasks.length === 0) return;
detectOverdueTasks_findMany_answer ==
    /\ pc15 = "query"
    /\ matched15' = Matching15(now15)
    /\ \E rows \in findMany(Matching15(now15), Take15) :
          /\ batch15' = rows
          /\ i15' = 1
          /\ IF Len(rows) = 0
             THEN pc15' = "idle" /\ outcome15' = "returned"
             ELSE pc15' = "notify" /\ outcome15' = "running"
    /\ UNCHANGED <<tasks, clock, now15, pcD, nowD, batchD, iD, notifications, emitted,
                   runs15, runsD, outcomeD, matchedD, throws, fin, fout, duVars>>

\* const now = new Date(); the findMany call is sent
sendDailyOverdueReminders_now ==
    /\ pcD = "idle" /\ Events < MaxEvents
    /\ runsD' = runsD + 1
    /\ nowD' = clock
    /\ pcD' = "query" /\ outcomeD' = "running"
    /\ UNCHANGED <<tasks, clock, pc15, now15, batch15, i15, batchD, iD, notifications,
                   emitted, runs15, outcome15, matched15, matchedD, throws, fin, fout, duVars>>

\* the store answers: const overdueTasks = await findMany({where: {...,
\* dueDate: {lt: now}, ...}, take: 200}); if (overdueTasks.length === 0) return;
sendDailyOverdueReminders_findMany_answer ==
    /\ pcD = "query"
    /\ matchedD' = MatchingDaily(nowD)
    /\ \E rows \in findMany(MatchingDaily(nowD), TakeDaily) :
          /\ batchD' = rows
          /\ iD' = 1
          /\ IF Len(rows) = 0
             THEN pcD' = "idle" /\ outcomeD' = "returned"
             ELSE pcD' = "notify" /\ outcomeD' = "running"
    /\ UNCHANGED <<tasks, clock, pc15, now15, batch15, i15, nowD, notifications,
                   emitted, runs15, runsD, outcome15, matched15, throws, fin, fout, duVars>>

NextLag ==
    \/ detectOverdueTasks_now
    \/ detectOverdueTasks_findMany_answer
    \/ detectOverdueTasks_findManyThrows
    \/ detectOverdueTasks_createForUsers
    \/ detectOverdueTasks_createForUsersThrows
    \/ detectOverdueTasks_update
    \/ detectOverdueTasks_updateThrows
    \/ sendDailyOverdueReminders_now
    \/ sendDailyOverdueReminders_findMany_answer
    \/ sendDailyOverdueReminders_findManyThrows
    \/ sendDailyOverdueReminders_createForUsers
    \/ sendDailyOverdueReminders_createForUsersThrows
    \/ sendDailyOverdueReminders_update
    \/ sendDailyOverdueReminders_updateThrows
    \/ Tick

SpecLag == InitEdit /\ [][NextLag]_vars

-----------------------------------------------------------------------------
(* The daily scan run day after day, without failures, on a table that     *)
(* nothing else writes.  The runs are not counted and every run reads the  *)
(* same clock, so that the behaviours are infinite over finitely many      *)
(* states; the sink keeps one record of equal calls.                       *)

\* A row overdue for 50 hours that the 15-minute scan stamped a day ago and
\* that has an assignee.
Reminded(id) ==
    [Row(id, Overdue) EXCEPT !.assigneeUserId = U(id),
                             !.lastOverdueNotifiedAt = Clock0 - DayMs]

\* The first n rows stamped and overdue, the other rows undated.
InitDaily ==
    /\ \E n \in 1..NumTasks :
          tasks = [id \in TaskIds |-> IF id <= n THEN Reminded(id) ELSE Row(id, Undated)]
    /\ InitRuns /\ InitNoRequests
    /\ fin = NoInput /\ fout = NoOutput

\* a run starts: const now = new Date(); const overdueTasks = await
\* findMany(...); if (overdueTasks.length === 0) return;
everyDay_findMany ==
    /\ pcD = "idle"
    /\ nowD' = clock
    /\ matchedD' = MatchingDaily(clock)
    /\ \E rows \in findMany(MatchingDaily(clock), TakeDaily) :
          /\ batchD' = rows
          /\ iD' = 1
          /\ IF Len(rows) = 0
             THEN pcD' = "idle" /\ outcomeD' = "returned"
             ELSE pcD' = "notify" /\ outcomeD' = "running"
    /\ UNCHANGED <<tasks, clock, pc15, now15, batch15, i15, notifications, emitted,
                   runs15, runsD, outcome15, matched15, throws, fin, fout, duVars>>

\* if (userIds.size > 0) await createForUsers([...userIds], {...})
everyDay_createForUsers ==
    /\ pcD = "notify"
    /\ LET task == batchD[iD]
       IN  IF Len(userIdsDaily(task)) > 0
              /\ callDaily(task, TRUE) \notin Range(notifications[task.id])
           THEN notifications' = [notifications EXCEPT
                                    ![task.id] = Append(@, callDaily(task, TRUE))]
           ELSE UNCHANGED notifications
    /\ pcD' = "update"
    /\ UNCHANGED <<tasks, clock, pc15, now15, batch15, i15, nowD, batchD, iD, emitted,
                   runs15, runsD, outcome15, outcomeD, matched15, matchedD, throws,
                   fin, fout, duVars>>

NextDaily ==
    \/ everyDay_findMany
    \/ everyDay_createForUsers
    \/ sendDailyOverdueReminders_update

\* The cron fires every day and every call a run awaits returns.
SpecDaily == InitDaily /\ [][NextDaily]_vars /\ WF_vars(NextDaily)

-----------------------------------------------------------------------------
(* StorageService.getStream of apps/api/src/storage/storage.service.ts     *)
(*                                                                         *)
(* A path is a sequence of segments and a segment a sequence of            *)
(* characters; the string of a path, which is what the source compares,    *)
(* is the sequence of the characters of "/" seg "/" seg ...  The file      *)
(* system is the set of regular files it holds and whether the symbolic    *)
(* link of LinkPath is there.                                              *)

uploadDir == <<(<<"u", "p">>)>>                      \* /up
SiblingDir == <<(<<"u", "p", "x">>)>>                \* /upx
OtherDir == <<(<<"e", "t", "c">>)>>                  \* /etc

InFile == Append(uploadDir, <<"a">>)                 \* /up/a
SiblingFile == Append(SiblingDir, <<"s">>)           \* /upx/s
OtherFile == Append(OtherDir, <<"p">>)               \* /etc/p
LinkPath == Append(uploadDir, <<"l">>)               \* /up/l -> /etc/p
MissingFile == Append(uploadDir, <<"m">>)            \* /up/m, never there
DotDotPath == uploadDir \o <<(<<".", ".">>)>> \o OtherFile   \* /up/../etc/p

Directories == {<<>>, uploadDir, SiblingDir, OtherDir}

FileSystems == [files : SUBSET {InFile, SiblingFile, OtherFile}, link : BOOLEAN]

StoragePaths == {InFile, SiblingFile, OtherFile, LinkPath, MissingFile, DotDotPath}

RECURSIVE PathString(_)
\* the string of a path
PathString(path) ==
    IF path = <<>> THEN <<>> ELSE <<"/">> \o Head(path) \o PathString(Tail(path))

RECURSIVE Canonical(_, _, _)
\* The canonical path of done/rest: ".." steps up, the symbolic link is
\* followed.
Canonical(fs, done, rest) ==
    IF rest = <<>> THEN done
    ELSE IF Head(rest) = <<".", ".">>
         THEN Canonical(fs, SubSeq(done, 1, Len(done) - 1), Tail(rest))
    ELSE IF fs.link /\ Append(done, Head(rest)) = LinkPath
         THEN Canonical(fs, OtherFile, Tail(rest))
    ELSE Canonical(fs, Append(done, Head(rest)), Tail(rest))

\* fs.existsSync(path): the path leads to a file or a directory
existsSync(fs, path) == Canonical(fs, <<>>, path) \in fs.files \cup Directories

\* fs.realpathSync(path), as a string
realpathSync(fs, path) == PathString(Canonical(fs, <<>>, path))

\* String.prototype.startsWith
startsWith(str, prefix) ==
    /\ Len(prefix) <= Len(str)
    /\ SubSeq(str, 1, Len(prefix)) = prefix

\* getStreamFromLocal(storagePath): the error thrown, or the path the read
\* stream is opened on
getStreamFromLocal(fs, storagePath) ==
    IF ~existsSync(fs, storagePath)
    THEN [error |-> "File not found", stream |-> <<>>]
    ELSE LET resolvedPath == realpathSync(fs, storagePath)
             resolvedUploadDir == realpathSync(fs, uploadDir)
         IN  IF ~startsWith(resolvedPath, resolvedUploadDir)
             THEN [error |-> "Access denied", stream |-> <<>>]
             ELSE [error |-> "", stream |-> resolvedPath]

\* getStreamFromS3(storagePath): falls back to local
getStreamFromS3(fs, storagePath) == getStreamFromLocal(fs, storagePath)

\* getStream(storagePath, provider)
getStream(fs, storagePath, provider) ==
    IF provider = "S3" THEN getStreamFromS3(fs, storagePath)
    ELSE getStreamFromLocal(fs, storagePath)

InitStorage ==
    /\ tasks = [id \in TaskIds |-> Row(id, Overdue)]
    /\ InitRuns /\ InitNoRequests
    /\ fin \in [fs : FileSystems, storagePath : StoragePaths, provider : {"LOCAL", "S3"}]
    /\ fout = [done |-> {}, getStream |-> [error |-> "", stream |-> <<>>]]

apply_getStream ==
    /\ "getStream" \notin fout.done
    /\ fout' = [done |-> {"getStream"},
                getStream |-> getStream(fin.fs, fin.storagePath, fin.provider)]
    /\ UNCHANGED <<schedVars, fin, duVars>>

NextStorage == apply_getStream

SpecStorage == InitStorage /\ [][NextStorage]_vars

-----------------------------------------------------------------------------
(* DailyUpdatesService: the service calls.  A request slot runs one call   *)
(* at a time; the calls of the two slots interleave at every await.  An    *)
(* action is the code of a call from one await to the next; the action     *)
(* that ends a call records its outcome in res.                            *)

\* ids of the attachment rows of update id
AttachmentsOf(id) ==
    {a \in 1..Len(dailyUpdateAttachment) :
        dailyUpdateAttachment[a].there /\ dailyUpdateAttachment[a].updateId = id}

\* where: { isDeleted: false }
NotDeleted == {id \in UpdateIds : dailyUpdate[id].there /\ ~dailyUpdate[id].isDeleted}

\* prisma.dailyUpdateRead.count({ where: { userId } })
readCount(userId) == Cardinality({r \in dailyUpdateRead : r[2] = userId})

\* the update was soft-deleted before the call started
Gone(id) == id \in UpdateIds /\ dailyUpdate[id].there /\ dailyUpdate[id].isDeleted

\* the attachment belongs to an update that was soft-deleted
GoneAttachment(a) ==
    /\ a \in 1..Len(dailyUpdateAttachment)
    /\ dailyUpdateAttachment[a].there
    /\ Gone(dailyUpdateAttachment[a].updateId)

\* A call starts in slot p.
Start(p) == req[p].pc = "idle" /\ calls < MaxCalls /\ calls' = calls + 1

\* The call of slot p goes on with the locals c.
Goes(p, c) ==
    /\ req' = [req EXCEPT ![p] = c]
    /\ res' = [res EXCEPT ![p] = NoAnswer]

\* The call c of slot p ends: it throws status, or returns ("ok") value, ids.
Ends(p, c, status, value, ids) ==
    /\ req' = [req EXCEPT ![p] = NoCall]
    /\ res' = [res EXCEPT ![p] =
                 [op |-> c.op, id |-> c.id, userId |-> c.userId, files |-> c.files,
                  late |-> c.late, call |-> c.call, status |-> status,
                  value |-> value, ids |-> ids]]

NewCall(op, id, late) == [NoCall EXCEPT !.op = op, !.id = id, !.late = late,
                                        !.call = calls + 1]

\* findById(id)
findById(p) ==
    /\ Start(p)
    /\ \E id \in UpdateIds :
          LET c == NewCall("findById", id, Gone(id))
          IN  IF ~dailyUpdate[id].there \/ dailyUpdate[id].isDeleted
              THEN Ends(p, c, "NotFound", 0, {})
              ELSE Ends(p, c, "ok", id, AttachmentsOf(id))
    /\ UNCHANGED <<dailyUpdate, dailyUpdateAttachment, dailyUpdateRead, stored>>
    /\ UNCHANGED <<schedVars, fin, fout>>

\* create(dto, authorId, files) up to the return of prisma.dailyUpdate.create
create_dailyUpdate(p) ==
    /\ Start(p)
    /\ \E files \in FileLists \cup {<<>>} :
          LET c == [NewCall("create", 0, FALSE) EXCEPT !.files = files]
          IN  \/ /\ Len(files) > maxFilesPerUpdate
                 /\ Ends(p, c, "BadRequest", 0, {})
                 /\ UNCHANGED dailyUpdate
              \/ /\ Len(files) <= maxFilesPerUpdate
                 /\ validateFiles(files) # "ok"
                 /\ Ends(p, c, "BadRequest", 0, {})
                 /\ UNCHANGED dailyUpdate
              \/ /\ Len(files) <= maxFilesPerUpdate
                 /\ validateFiles(files) = "ok"
                 /\ \E id \in UpdateIds :
                       /\ ~dailyUpdate[id].there
                       /\ \A j \in UpdateIds : j < id => dailyUpdate[j].there
                       /\ dailyUpdate' = [dailyUpdate EXCEPT ![id] =
                             [there |-> TRUE, isDeleted |-> FALSE, pinned |-> FALSE,
                              authorId |-> "U1", editHistory |-> 0]]
                       /\ Goes(p, [c EXCEPT !.id = id, !.k = 1,
                                     !.pc = IF Len(files) > 0 THEN "upload" ELSE "findById"])
    /\ UNCHANGED <<dailyUpdateAttachment, dailyUpdateRead, stored>>
    /\ UNCHANGED <<schedVars, fin, fout>>

\* const stored = await this.storage.upload(file)
create_upload(p) ==
    /\ req[p].op = "create" /\ req[p].pc = "upload"
    /\ stored' = stored \cup {<<req[p].call, req[p].k>>}
    /\ Goes(p, [req[p] EXCEPT !.pc = "attachment", !.path = <<req[p].call, req[p].k>>])
    /\ UNCHANGED <<dailyUpdate, dailyUpdateAttachment, dailyUpdateRead, calls>>
    /\ UNCHANGED <<schedVars, fin, fout>>

\* the attachment row of file k of the call c
AttachmentRow(c) ==
    [there |-> TRUE, updateId |-> c.id, originalName |-> c.files[c.k].originalname,
     mimeType |-> c.files[c.k].mimetype, sizeBytes |-> c.files[c.k].size,
     storagePath |-> c.path]

\* await this.prisma.dailyUpdateAttachment.create({...}), then the next file
create_attachment(p) ==
    /\ req[p].op = "create" /\ req[p].pc = "attachment"
    /\ dailyUpdateAttachment' = Append(dailyUpdateAttachment, AttachmentRow(req[p]))
    /\ Goes(p, [req[p] EXCEPT !.k = @ + 1,
                  !.pc = IF req[p].k < Len(req[p].files) THEN "upload" ELSE "findById"])
    /\ UNCHANGED <<dailyUpdate, dailyUpdateRead, stored, calls>>
    /\ UNCHANGED <<schedVars, fin, fout>>

\* return this.findById(update.id)
create_findById(p) ==
    /\ req[p].op = "create" /\ req[p].pc = "findById"
    /\ IF dailyUpdate[req[p].id].isDeleted
       THEN Ends(p, req[p], "NotFound", 0, {})
       ELSE Ends(p, req[p], "ok", req[p].id, AttachmentsOf(req[p].id))
    /\ UNCHANGED <<dailyUpdate, dailyUpdateAttachment, dailyUpdateRead, stored, calls>>
    /\ UNCHANGED <<schedVars, fin, fout>>

\* addAttachments(updateId, files, uploaderId) up to the first upload:
\* findUnique, the count check and the validation of every file
addAttachments_findUnique(p) ==
    /\ Start(p)
    /\ \E updateId \in UpdateIds : \E files \in FileLists :
          LET c == [NewCall("addAttachments", updateId, Gone(updateId)) EXCEPT
                       !.files = files]
              existingCount == Cardinality(AttachmentsOf(updateId))
          IN  IF ~dailyUpdate[updateId].there \/ dailyUpdate[updateId].isDeleted
              THEN Ends(p, c, "NotFound", 0, {})
              ELSE IF existingCount + Len(files) > maxFilesPerUpdate
              THEN Ends(p, c, "BadRequest", 0, {})
              ELSE IF validateFiles(files) # "ok"
              THEN Ends(p, c, "BadRequest", 0, {})
              ELSE Goes(p, [c EXCEPT !.pc = "upload", !.k = 1, !.n = existingCount])
    /\ UNCHANGED <<dailyUpdate, dailyUpdateAttachment, dailyUpdateRead, stored>>
    /\ UNCHANGED <<schedVars, fin, fout>>

\* const stored = await this.storage.upload(file)
addAttachments_upload(p) ==
    /\ req[p].op = "addAttachments" /\ req[p].pc = "upload"
    /\ stored' = stored \cup {<<req[p].call, req[p].k>>}
    /\ Goes(p, [req[p] EXCEPT !.pc = "attachment", !.path = <<req[p].call, req[p].k>>])
    /\ UNCHANGED <<dailyUpdate, dailyUpdateAttachment, dailyUpdateRead, calls>>
    /\ UNCHANGED <<schedVars, fin, fout>>

\* const att = await this.prisma.dailyUpdateAttachment.create({...});
\* attachments.push(att); after the last file, return attachments
addAttachments_create(p) ==
    /\ req[p].op = "addAttachments" /\ req[p].pc = "attachment"
    /\ dailyUpdateAttachment' = Append(dailyUpdateAttachment, AttachmentRow(req[p]))
    /\ IF req[p].k < Len(req[p].files)
       THEN Goes(p, [req[p] EXCEPT !.k = @ + 1, !.pc = "upload"])
       ELSE Ends(p, req[p], "ok", Len(req[p].files), {})
    /\ UNCHANGED <<dailyUpdate, dailyUpdateRead, stored, calls>>
    /\ UNCHANGED <<schedVars, fin, fout>>

\* deleteAttachment(attachmentId): findUnique
deleteAttachment_findUnique(p) ==
    /\ Start(p)
    /\ \E attachmentId \in 1..(Len(dailyUpdateAttachment) + 1) :
          LET c == NewCall("deleteAttachment", attachmentId, GoneAttachment(attachmentId))
          IN  IF attachmentId > Len(dailyUpdateAttachment)
                 \/ ~dailyUpdateAttachment[attachmentId].there
              THEN Ends(p, c, "NotFound", 0, {})
              ELSE Goes(p, [c EXCEPT !.pc = "storageDelete",
                              !.path = dailyUpdateAttachment[attachmentId].storagePath])
    /\ UNCHANGED <<dailyUpdate, dailyUpdateAttachment, dailyUpdateRead, stored>>
    /\ UNCHANGED <<schedVars, fin, fout>>

\* await this.storage.delete(att.storagePath, att.storageProvider)
deleteAttachment_storageDelete(p) ==
    /\ req[p].op = "deleteAttachment" /\ req[p].pc = "storageDelete"
    /\ stored' = stored \ {req[p].path}
    /\ Goes(p, [req[p] EXCEPT !.pc = "delete"])
    /\ UNCHANGED <<dailyUpdate, dailyUpdateAttachment, dailyUpdateRead, calls>>
    /\ UNCHANGED <<schedVars, fin, fout>>

\* await this.prisma.dailyUpdateAttachment.delete({ where: { id } }): deletes
\* the row, or throws when the row is no longer there
deleteAttachment_delete(p) ==
    /\ req[p].op = "deleteAttachment" /\ req[p].pc = "delete"
    /\ IF dailyUpdateAttachment[req[p].id].there
       THEN /\ dailyUpdateAttachment' =
                  [dailyUpdateAttachment EXCEPT ![req[p].id].there = FALSE]
            /\ Ends(p, req[p], "ok", 0, {})
       ELSE /\ UNCHANGED dailyUpdateAttachment
            /\ Ends(p, req[p], "Error", 0, {})
    /\ UNCHANGED <<dailyUpdate, dailyUpdateRead, stored, calls>>
    /\ UNCHANGED <<schedVars, fin, fout>>

\* The callers of update and delete: the author, another user who is an
\* admin, another user who is not.
Callers == {<<"U1", "member">>, <<"U2", "admin">>, <<"U2", "member">>}

\* existing.authorId !== userId && !['admin', 'pm'].includes(userRole)
Forbidden(existing, userId, userRole) ==
    existing.authorId # userId /\ userRole \notin {"admin", "pm"}

\* delete(id, userId, userRole): findUnique and the two checks
delete_findUnique(p) ==
    /\ Start(p)
    /\ \E id \in UpdateIds : \E who \in Callers :
          LET c == [NewCall("delete", id, Gone(id)) EXCEPT
                       !.userId = who[1], !.userRole = who[2]]
          IN  IF ~dailyUpdate[id].there
              THEN Ends(p, c, "NotFound", 0, {})
              ELSE IF Forbidden(dailyUpdate[id], who[1], who[2])
              THEN Ends(p, c, "Forbidden", 0, {})
              ELSE Goes(p, [c EXCEPT !.pc = "update"])
    /\ UNCHANGED <<dailyUpdate, dailyUpdateAttachment, dailyUpdateRead, stored>>
    /\ UNCHANGED <<schedVars, fin, fout>>

\* await this.prisma.dailyUpdate.update({ where: { id }, data: { isDeleted: true } })
delete_update(p) ==
    /\ req[p].op = "delete" /\ req[p].pc = "update"
    /\ dailyUpdate' = [dailyUpdate EXCEPT ![req[p].id].isDeleted = TRUE]
    /\ Ends(p, req[p], "ok", 0, {})
    /\ UNCHANGED <<dailyUpdateAttachment, dailyUpdateRead, stored, calls>>
    /\ UNCHANGED <<schedVars, fin, fout>>

\* update(id, dto, userId, userRole): findUnique and the two checks
update_findUnique(p) ==
    /\ Start(p)
    /\ \E id \in UpdateIds : \E who \in Callers :
          LET c == [NewCall("update", id, Gone(id)) EXCEPT
                       !.userId = who[1], !.userRole = who[2]]
          IN  IF ~dailyUpdate[id].there \/ dailyUpdate[id].isDeleted
              THEN Ends(p, c, "NotFound", 0, {})
              ELSE IF Forbidden(dailyUpdate[id], who[1], who[2])
              THEN Ends(p, c, "Forbidden", 0, {})
              ELSE Goes(p, [c EXCEPT !.pc = "update", !.n = dailyUpdate[id].editHistory])
    /\ UNCHANGED <<dailyUpdate, dailyUpdateAttachment, dailyUpdateRead, stored>>
    /\ UNCHANGED <<schedVars, fin, fout>>

\* editHistory.push({...}); return this.prisma.dailyUpdate.update({ where:
\* { id }, data: { ...dto, editHistory } }); editHistory is its length
update_update(p) ==
    /\ req[p].op = "update" /\ req[p].pc = "update"
    /\ dailyUpdate' = [dailyUpdate EXCEPT ![req[p].id].editHistory = req[p].n + 1]
    /\ Ends(p, req[p], "ok", req[p].id, {})
    /\ UNCHANGED <<dailyUpdateAttachment, dailyUpdateRead, stored, calls>>
    /\ UNCHANGED <<schedVars, fin, fout>>

\* markAsRead(updateId, userId): findUnique
markAsRead_findUnique(p) ==
    /\ Start(p)
    /\ \E updateId \in UpdateIds : \E userId \in Readers :
          LET c == [NewCall("markAsRead", updateId, Gone(updateId)) EXCEPT
                       !.userId = userId]
          IN  IF ~dailyUpdate[updateId].there \/ dailyUpdate[updateId].isDeleted
              THEN Ends(p, c, "NotFound", 0, {})
              ELSE Goes(p, [c EXCEPT !.pc = "upsert"])
    /\ UNCHANGED <<dailyUpdate, dailyUpdateAttachment, dailyUpdateRead, stored>>
    /\ UNCHANGED <<schedVars, fin, fout>>

\* await this.prisma.dailyUpdateRead.upsert({...})
markAsRead_upsert(p) ==
    /\ req[p].op = "markAsRead" /\ req[p].pc = "upsert"
    /\ dailyUpdateRead' = dailyUpdateRead \cup {<<req[p].id, req[p].userId>>}
    /\ Ends(p, req[p], "ok", 0, {})
    /\ UNCHANGED <<dailyUpdate, dailyUpdateAttachment, stored, calls>>
    /\ UNCHANGED <<schedVars, fin, fout>>

\* markAllAsRead(userId): findMany of the updates the user has not read
markAllAsRead_findMany(p) ==
    /\ Start(p)
    /\ \E userId \in Readers :
          LET c == [NewCall("markAllAsRead", 0, FALSE) EXCEPT !.userId = userId]
              unreadUpdates == {id \in NotDeleted : <<id, userId>> \notin dailyUpdateRead}
          IN  IF unreadUpdates = {}
              THEN Ends(p, c, "ok", 0, {})
              ELSE Goes(p, [c EXCEPT !.pc = "createMany", !.ids = unreadUpdates])
    /\ UNCHANGED <<dailyUpdate, dailyUpdateAttachment, dailyUpdateRead, stored>>
    /\ UNCHANGED <<schedVars, fin, fout>>

\* await this.prisma.dailyUpdateRead.createMany({ data, skipDuplicates: true })
markAllAsRead_createMany(p) ==
    /\ req[p].op = "markAllAsRead" /\ req[p].pc = "createMany"
    /\ dailyUpdateRead' = dailyUpdateRead \cup {<<id, req[p].userId>> : id \in req[p].ids}
    /\ Ends(p, req[p], "ok", Cardinality(req[p].ids), {})
    /\ UNCHANGED <<dailyUpdate, dailyUpdateAttachment, stored, calls>>
    /\ UNCHANGED <<schedVars, fin, fout>>

\* const readCount = await count({ where: { userId } });
\* Math.max(0, totalUpdates - readCount)
unreadCount(totalUpdates, userId) ==
    IF totalUpdates - readCount(userId) > 0 THEN totalUpdates - readCount(userId) ELSE 0

\* getUnreadCount(userId): totalUpdates
getUnreadCount_countUpdates(p) ==
    /\ Start(p)
    /\ \E userId \in Readers :
          Goes(p, [NewCall("getUnreadCount", 0, FALSE) EXCEPT
                     !.userId = userId, !.pc = "countReads",
                     !.n = Cardinality(NotDeleted)])
    /\ UNCHANGED <<dailyUpdate, dailyUpdateAttachment, dailyUpdateRead, stored>>
    /\ UNCHANGED <<schedVars, fin, fout>>

\* getUnreadCount(userId): readCount and the result
getUnreadCount_countReads(p) ==
    /\ req[p].op = "getUnreadCount" /\ req[p].pc = "countReads"
    /\ Ends(p, req[p], "ok", unreadCount(req[p].n, req[p].userId), {})
    /\ UNCHANGED <<dailyUpdate, dailyUpdateAttachment, dailyUpdateRead, stored, calls>>
    /\ UNCHANGED <<schedVars, fin, fout>>

\* findAll({ userId }): the page of updates (where: { isDeleted: false })
findAll_findMany(p) ==
    /\ Start(p)
    /\ \E userId \in Readers :
          Goes(p, [NewCall("findAll", 0, FALSE) EXCEPT
                     !.userId = userId, !.pc = "countUpdates", !.ids = NotDeleted])
    /\ UNCHANGED <<dailyUpdate, dailyUpdateAttachment, dailyUpdateRead, stored>>
    /\ UNCHANGED <<schedVars, fin, fout>>

\* findAll: totalUpdates
findAll_countUpdates(p) ==
    /\ req[p].op = "findAll" /\ req[p].pc = "countUpdates"
    /\ Goes(p, [req[p] EXCEPT !.pc = "countReads", !.n = Cardinality(NotDeleted)])
    /\ UNCHANGED <<dailyUpdate, dailyUpdateAttachment, dailyUpdateRead, stored, calls>>
    /\ UNCHANGED <<schedVars, fin, fout>>

\* findAll: readCount and the result
findAll_countReads(p) ==
    /\ req[p].op = "findAll" /\ req[p].pc = "countReads"
    /\ Ends(p, req[p], "ok", unreadCount(req[p].n, req[p].userId), req[p].ids)
    /\ UNCHANGED <<dailyUpdate, dailyUpdateAttachment, dailyUpdateRead, stored, calls>>
    /\ UNCHANGED <<schedVars, fin, fout>>

\* getAttachmentStream(attachmentId): getAttachment
getAttachmentStream_getAttachment(p) ==
    /\ Start(p)
    /\ \E attachmentId \in 1..(Len(dailyUpdateAttachment) + 1) :
          LET c == NewCall("getAttachmentStream", attachmentId,
                           GoneAttachment(attachmentId))
          IN  IF \/ attachmentId > Len(dailyUpdateAttachment)
                 \/ ~dailyUpdateAttachment[attachmentId].there
                 \/ dailyUpdate[dailyUpdateAttachment[attachmentId].updateId].isDeleted
              THEN Ends(p, c, "NotFound", 0, {})
              ELSE Goes(p, [c EXCEPT !.pc = "getStream",
                              !.path = dailyUpdateAttachment[attachmentId].storagePath])
    /\ UNCHANGED <<dailyUpdate, dailyUpdateAttachment, dailyUpdateRead, stored>>
    /\ UNCHANGED <<schedVars, fin, fout>>

\* const stream = await this.storage.getStream(att.storagePath, att.storageProvider)
getAttachmentStream_getStream(p) ==
    /\ req[p].op = "getAttachmentStream" /\ req[p].pc = "getStream"
    /\ IF req[p].path \in stored
       THEN Ends(p, req[p], "ok", req[p].id, {})
       ELSE Ends(p, req[p], "Error", 0, {})
    /\ UNCHANGED <<dailyUpdate, dailyUpdateAttachment, dailyUpdateRead, stored, calls>>
    /\ UNCHANGED <<schedVars, fin, fout>>

\* togglePin(id): findUnique
togglePin_findUnique(p) ==
    /\ Start(p)
    /\ \E id \in UpdateIds :
          LET c == NewCall("togglePin", id, Gone(id))
          IN  IF ~dailyUpdate[id].there
              THEN Ends(p, c, "NotFound", 0, {})
              ELSE Goes(p, [c EXCEPT !.pc = "update", !.flag = dailyUpdate[id].pinned])
    /\ UNCHANGED <<dailyUpdate, dailyUpdateAttachment, dailyUpdateRead, stored>>
    /\ UNCHANGED <<schedVars, fin, fout>>

\* return this.prisma.dailyUpdate.update({ where: { id }, data: { pinned: !existing.pinned } })
togglePin_update(p) ==
    /\ req[p].op = "togglePin" /\ req[p].pc = "update"
    /\ dailyUpdate' = [dailyUpdate EXCEPT ![req[p].id].pinned = ~req[p].flag]
    /\ Ends(p, req[p], "ok", req[p].id, {})
    /\ UNCHANGED <<dailyUpdateAttachment, dailyUpdateRead, stored, calls>>
    /\ UNCHANGED <<schedVars, fin, fout>>

\* The tables the service starts from: update 1 with one attachment, and
\* update 2 or no second update; user U1 has read update 1 or nothing.
InitUpdates ==
    /\ tasks = [id \in TaskIds |-> Row(id, Overdue)]
    /\ InitRuns
    /\ fin = NoInput /\ fout = NoOutput
    /\ \E second \in BOOLEAN :
          dailyUpdate = [id \in UpdateIds |->
                           IF id = 1 \/ (id = 2 /\ second)
                           THEN [NoRow EXCEPT !.there = TRUE, !.authorId = "U1"]
                           ELSE NoRow]
    /\ dailyUpdateAttachment =
          <<[there |-> TRUE, updateId |-> 1, originalName |-> Report.originalname,
             mimeType |-> Report.mimetype, sizeBytes |-> Report.size,
             storagePath |-> <<0, 1>>]>>
    /\ dailyUpdateRead \in {{}, {<<1, "U1">>}}
    /\ stored = {<<0, 1>>}
    /\ req = [p \in Procs |-> NoCall]
    /\ res = [p \in Procs |-> NoAnswer]
    /\ calls = 0

\* create, addAttachments and deleteAttachment calls
NextUploads ==
    \E p \in Procs :
        \/ create_dailyUpdate(p)
        \/ create_upload(p)
        \/ create_attachment(p)
        \/ create_findById(p)
        \/ addAttachments_findUnique(p)
        \/ addAttachments_upload(p)
        \/ addAttachments_create(p)
        \/ deleteAttachment_findUnique(p)
        \/ deleteAttachment_storageDelete(p)
        \/ deleteAttachment_delete(p)

\* The uploads start with no read record.
InitUploads == InitUpdates /\ dailyUpdateRead = {}

SpecUploads == InitUploads /\ [][NextUploads]_vars

\* create and addAttachments calls alone
NextValidation ==
    \E p \in Procs :
        \/ create_dailyUpdate(p)
        \/ create_upload(p)
        \/ create_attachment(p)
        \/ create_findById(p)
        \/ addAttachments_findUnique(p)
        \/ addAttachments_upload(p)
        \/ addAttachments_create(p)

SpecValidation == InitUploads /\ [][NextValidation]_vars

\* delete, and the calls that reach an update or one of its attachments
NextAccess ==
    \E p \in Procs :
        \/ delete_findUnique(p)
        \/ delete_update(p)
        \/ findById(p)
        \/ update_findUnique(p)
        \/ update_update(p)
        \/ markAsRead_findUnique(p)
        \/ markAsRead_upsert(p)
        \/ addAttachments_findUnique(p)
        \/ addAttachments_upload(p)
        \/ addAttachments_create(p)
        \/ getAttachmentStream_getAttachment(p)
        \/ getAttachmentStream_getStream(p)
        \/ togglePin_findUnique(p)
        \/ togglePin_update(p)
        \/ findAll_findMany(p)
        \/ findAll_countUpdates(p)
        \/ findAll_countReads(p)

SpecAccess == InitUpdates /\ [][NextAccess]_vars

\* create, delete and the read tracking
NextReads ==
    \E p \in Procs :
        \/ create_dailyUpdate(p)
        \/ create_upload(p)
        \/ create_attachment(p)
        \/ create_findById(p)
        \/ delete_findUnique(p)
        \/ delete_update(p)
        \/ markAsRead_findUnique(p)
        \/ markAsRead_upsert(p)
        \/ markAllAsRead_findMany(p)
        \/ markAllAsRead_createMany(p)
        \/ getUnreadCount_countUpdates(p)
        \/ getUnreadCount_countReads(p)
        \/ findAll_findMany(p)
        \/ findAll_countUpdates(p)
        \/ findAll_countReads(p)

SpecReads == InitUpdates /\ [][NextReads]_vars

-----------------------------------------------------------------------------
(* The pure parts on their own: recipients and day count of one task row *)

SeqsUpTo(S, n) == UNION {[1..k -> S] : k \in 0..n}

\* Overdue times the day count is tried on, ms: around the day boundaries,
\* and the 50 hours of the documented example.
Overdues == {1, DayMs - 1, DayMs, DayMs + 1, 50 * HourMs, 3 * DayMs, 3 * DayMs + 1}

PureInputs ==
    [assigneeUserId : Users \cup {NoUser},
     createdById : Users \cup {NoUser},
     assignments : SeqsUpTo(Users, MaxAssignments),
     dueDate : {Clock0 - d : d \in Overdues},
     now : {Clock0}]

InitPure ==
    /\ tasks = [id \in TaskIds |-> Row(id, Overdue)]
    /\ InitRuns /\ InitNoRequests
    /\ fin \in PureInputs
    /\ fout = NoOutput

apply_userIds15 ==
    /\ "userIds15" \notin fout.done
    /\ fout' = [fout EXCEPT !.done = @ \cup {"userIds15"}, !.userIds15 = userIds15(fin)]
    /\ UNCHANGED <<schedVars, fin, duVars>>

apply_userIdsDaily ==
    /\ "userIdsDaily" \notin fout.done
    /\ fout' = [fout EXCEPT !.done = @ \cup {"userIdsDaily"},
                            !.userIdsDaily = userIdsDaily(fin)]
    /\ UNCHANGED <<schedVars, fin, duVars>>

apply_daysDiff ==
    /\ "daysDiff" \notin fout.done
    /\ fout' = [fout EXCEPT !.done = @ \cup {"daysDiff"},
                            !.daysDiff = daysDiff(fin.now, fin.dueDate)]
    /\ UNCHANGED <<schedVars, fin, duVars>>

NextPure == apply_userIds15 \/ apply_userIdsDaily \/ apply_daysDiff

SpecPure == InitPure /\ [][NextPure]_vars

-----------------------------------------------------------------------------
(* Vocabulary of the claims *)

\* The recipients of a task as a set: assignee (if set), creator (if set) and
\* every assignment user.
RecipientSet(t) ==
    ({t.assigneeUserId, t.createdById} \ {NoUser}) \cup Range(t.assignments)

\* The recipients of a reminder as a set: assignee (if set) and assignment users.
ReminderSet(t) == ({t.assigneeUserId} \ {NoUser}) \cup Range(t.assignments)

NoDuplicates(s) == \A a, b \in 1..Len(s) : a # b => s[a] # s[b]

\* Durable notifications recorded for a task under a title (calls that threw
\* recorded nothing).
Created(id, title) ==
    SelectSeq(notifications[id], LAMBDA c : c.title = title /\ c.ok)

\* Those created by one run of the scan that uses the title.
CreatedBy(id, title, run) ==
    SelectSeq(notifications[id], LAMBDA c : c.title = title /\ c.ok /\ c.run = run)

stampOf(id) == tasks[id].lastOverdueNotifiedAt

\* Overdue at `now`, open and not soft-deleted.
IsOverdue(t, now) ==
    /\ t.dueDate # NULL /\ t.dueDate < now
    /\ t.status # "completed" /\ t.status # "cancelled"
    /\ ~t.isDeleted

\* A step that starts a run of the 15-minute scan / of the daily scan.
Starts15 == runs15' = runs15 + 1
StartsDaily == runsD' = runsD + 1

-----------------------------------------------------------------------------
(* C1: at most one 'Task Overdue' notification is ever created per task,   *)
(* over any sequence of runs of the 15-minute scan, runs that abort on a   *)
(* store or sink failure included.                                          *)
C1_AtMostOneNewlyOverdue ==
    \A id \in TaskIds : Len(Created(id, "Task Overdue")) <= 1


-----------------------------------------------------------------------------
\* What one run of the 15-minute scan that ended without error did for the
\* row it read as t: stamped it, and created exactly one notification for it,
\* addressed to its recipients, when it has any (none otherwise).
NotifiedOnce15(t) ==
    /\ stampOf(t.id) # NULL
    /\ LET made == CreatedBy(t.id, "Task Overdue", runs15)
       IN  IF RecipientSet(t) = {}
           THEN Len(made) = 0
           ELSE /\ Len(made) = 1
                /\ Range(made[1].userIds) = RecipientSet(t)

(* C2, as stated: after one failure-free run of the 15-minute scan, every  *)
(* task that was overdue, open, not deleted and unstamped when the run     *)
(* queried is stamped and has exactly one notification of this run,        *)
(* addressed to the union of assignee, creator and assignment users.       *)
C2_EveryQualifyingTaskNotified ==
    outcome15 = "completed" => \A id \in matched15 : NotifiedOnce15(tasks[id])

(* C2, amended: that holds of every task the run's query returned, which   *)
(* are all the qualifying tasks when at most `take` of them qualify and    *)
(* `take` of them otherwise.                                                *)
C2_EverySelectedTaskNotified ==
    outcome15 = "completed" =>
        /\ \A k \in 1..Len(batch15) : NotifiedOnce15(batch15[k])
        /\ Ids(batch15) \subseteq matched15
        /\ Cardinality(Ids(batch15)) = Min(Take15, Cardinality(matched15))

\* A failure-free run over more qualifying tasks than it takes, one of them
\* with three recipients.
C2_Witness ==
    /\ outcome15 = "completed"
    /\ Cardinality(matched15) > Take15
    /\ \E k \in 1..Len(batch15) : Cardinality(RecipientSet(batch15[k])) = 3

-----------------------------------------------------------------------------
\* The rows the previous run of the 15-minute scan stamped.
Stamped15 == {batch15[k].id : k \in 1..(i15 - 1)}

(* C3, as stated: of two runs of the 15-minute scan in succession, the     *)
(* second selects zero tasks.  Stated for the most favourable case: the    *)
(* first run ended without error and the second starts at the same clock   *)
(* reading, so that no further task has fallen due.                         *)
C3_SecondRunSelectsNothing ==
    [][(Starts15 /\ outcome15 \in {"completed", "returned"} /\ clock = now15)
          => batch15' = <<>>]_vars

(* C3, amended: a run of the 15-minute scan never selects a task that the  *)
(* run before it stamped, and selects only tasks that match its query, so  *)
(* it notifies only the tasks the first run left unstamped: those beyond   *)
(* the first run's `take`, those after an error, and those fallen due      *)
(* since.  When the first run ended without error having found no more     *)
(* than `take` matching tasks, and no clock tick lies between the runs,    *)
(* the second run selects zero tasks and performs no notification, no      *)
(* real-time event and no stamp write.                                     *)
C3_SecondRunSelectsOnlyUnstamped ==
    [][(Starts15 /\ runs15 >= 1) =>
          /\ Ids(batch15') \cap Stamped15 = {}
          /\ \A id \in Ids(batch15') : IsOverdue(tasks[id], clock) /\ stampOf(id) = NULL
          /\ (/\ outcome15 \in {"completed", "returned"}
              /\ Cardinality(matched15) <= Take15
              /\ clock = now15)
             => /\ batch15' = <<>> /\ pc15' = "idle"
                /\ UNCHANGED <<tasks, notifications, emitted>>]_vars

\* A second run that found nothing to do after a first run that stamped a task.
C3_Witness ==
    /\ runs15 = 2 /\ outcome15 = "returned" /\ throws = 0
    /\ \E id \in TaskIds : stampOf(id) # NULL


-----------------------------------------------------------------------------
(* C4: the recipients of the 15-minute scan are exactly the union of the   *)
(* assignee (if set), the creator (if set) and the assignment users, each  *)
(* user id at most once in the list passed to createForUsers; assignee U1, *)
(* creator U1, assignments [U2, U3] gives exactly U1, U2, U3.              *)
C4_RecipientsAreTheUnion ==
    "userIds15" \in fout.done =>
        /\ Range(fout.userIds15) = RecipientSet(fin)
        /\ NoDuplicates(fout.userIds15)
        /\ (/\ fin.assigneeUserId = "U1" /\ fin.createdById = "U1"
            /\ fin.assignments = <<"U2", "U3">>)
           => /\ Len(fout.userIds15) = 3
              /\ Range(fout.userIds15) = {"U1", "U2", "U3"}

\* The documented example has been computed.
C4_Witness ==
    /\ "userIds15" \in fout.done
    /\ fin.assigneeUserId = "U1" /\ fin.createdById = "U1"
    /\ fin.assignments = <<"U2", "U3">>
    /\ Len(fout.userIds15) = 3


-----------------------------------------------------------------------------
HasNoRecipients(id) == RecipientSet(tasks[id]) = {}

(* C5: a task with no assignee, no creator and no assignments that the     *)
(* 15-minute scan selected is stamped with the run's now all the same, no  *)
(* durable notification and no real-time event is ever created for it, and *)
(* once stamped it is never selected by the 15-minute scan again.          *)
C5_ZeroRecipientTaskStampedOnce ==
    /\ [](\A id \in TaskIds :
            HasNoRecipients(id) => notifications[id] = <<>> /\ emitted[id] = <<>>)
    /\ [][\A id \in TaskIds : HasNoRecipients(id) =>
            /\ (pc15 = "update" /\ i15' = i15 + 1 /\ batch15[i15].id = id)
               => tasks'[id].lastOverdueNotifiedAt = now15
            /\ stampOf(id) # NULL
               => /\ tasks'[id].lastOverdueNotifiedAt # NULL
                  /\ Starts15 => id \notin Ids(batch15')]_vars

\* A zero-recipient task was stamped by the first run, and the second run
\* selected other tasks but not this one.
C5_Witness ==
    \E id \in TaskIds :
        /\ HasNoRecipients(id) /\ stampOf(id) # NULL
        /\ notifications[id] = <<>> /\ emitted[id] = <<>>
        /\ runs15 = 2 /\ batch15 # <<>> /\ id \notin Ids(batch15)

-----------------------------------------------------------------------------
\* The tasks that matched the last query of the 15-minute scan and are stamped.
MatchedAndStamped == {id \in matched15 : stampOf(id) # NULL}
MatchedNotStamped == {id \in matched15 : stampOf(id) = NULL}
UnstampedOverdue(now) ==
    {id \in TaskIds : IsOverdue(tasks[id], now) /\ stampOf(id) = NULL}

-----------------------------------------------------------------------------
(* C7: the recipients of a daily reminder are exactly the union of the     *)
(* assignee (if set) and the assignment users; the creator is among them   *)
(* only when the creator is also the assignee or an assignment user,       *)
(* although the creator is a recipient of the first overdue notification.  *)
C7_ReminderExcludesCreator ==
    "userIdsDaily" \in fout.done =>
        /\ Range(fout.userIdsDaily) = ReminderSet(fin)
        /\ NoDuplicates(fout.userIdsDaily)
        /\ fin.createdById \in Range(fout.userIdsDaily)
             <=> (/\ fin.createdById # NoUser
                  /\ \/ fin.createdById = fin.assigneeUserId
                     \/ fin.createdById \in Range(fin.assignments))
        /\ ("userIds15" \in fout.done /\ fin.createdById # NoUser)
             => fin.createdById \in Range(fout.userIds15)

\* A creator who is notified by the 15-minute scan and not reminded.
C7_Witness ==
    /\ {"userIds15", "userIdsDaily"} \subseteq fout.done
    /\ fin.createdById \in Range(fout.userIds15)
    /\ fin.createdById \notin Range(fout.userIdsDaily)
    /\ Len(fout.userIdsDaily) = 2

-----------------------------------------------------------------------------
\* The reminder calls of the current (or last) run of the daily scan.
Reminders(id) ==
    SelectSeq(notifications[id],
              LAMBDA c : c.title = "Overdue Reminder" /\ c.run = runsD)

(* C8: the day count of a daily reminder is ceil((now - dueDate) / 24h) on *)
(* millisecond timestamps, the least n with n days >= now - dueDate, where *)
(* now is the time the run captured when it started; a task due 50 hours   *)
(* before now yields 3.                                                     *)
C8_DayCountIsCeiling ==
    \A id \in TaskIds : \A k \in 1..Len(Reminders(id)) :
        LET n == Reminders(id)[k].daysDiff
            late == nowD - tasks[id].dueDate
        IN  /\ (n - 1) * DayMs < late /\ late <= n * DayMs
            /\ late = 50 * HourMs => n = 3

\* A reminder for a task due 50 hours before the run started.
C8_Witness ==
    \E id \in TaskIds :
        /\ Len(Reminders(id)) = 1
        /\ Reminders(id)[1].ok
        /\ nowD - tasks[id].dueDate = 50 * HourMs
        /\ Reminders(id)[1].daysDiff = 3


-----------------------------------------------------------------------------
(* C9: lastOverdueNotifiedAt of a task goes from null to a timestamp only  *)
(* through the stamp write of the 15-minute scan, which writes that run's  *)
(* now; once non-null it is rewritten only by the stamp write of a daily   *)
(* run, and no step of either scan sets it back to null, so the first      *)
(* transition happens exactly once.                                         *)
C9_StampLifecycle ==
    [][\A id \in TaskIds :
          LET a == stampOf(id)
              b == tasks'[id].lastOverdueNotifiedAt
          IN  /\ a # NULL => b # NULL
              /\ (a = NULL /\ b # NULL)
                 => /\ pc15 = "update" /\ i15' = i15 + 1
                    /\ batch15[i15].id = id /\ b = now15
              /\ (a # NULL /\ b # a)
                 => /\ pcD = "update" /\ iD' = iD + 1
                    /\ batchD[iD].id = id /\ b = nowD]_vars

\* A task that the 15-minute scan stamped and a later daily run restamped.
C9_Witness ==
    \E k \in 1..(iD - 1) :
        /\ batchD[k].lastOverdueNotifiedAt # NULL
        /\ batchD[k].lastOverdueNotifiedAt < nowD
        /\ stampOf(batchD[k].id) = nowD

-----------------------------------------------------------------------------
\* The rows after the one at which the last run stopped.
Later15 == {batch15[j].id : j \in (i15 + 1)..Len(batch15)}
LaterDaily == {batchD[j].id : j \in (iD + 1)..Len(batchD)}
StampedOverdue(now) ==
    {id \in TaskIds : IsOverdue(tasks[id], now) /\ stampOf(id) # NULL}

\* Calls a run made for a task, whether or not they threw.
CallsBy(id, title, run) ==
    SelectSeq(notifications[id], LAMBDA c : c.title = title /\ c.run = run)

\* After a run stopped at an error: the rows before the failing one keep a
\* stamp, and the rows after it were neither notified nor stamped by the run
\* and still match the query of their scan.
NoRollbackNoProgress ==
    /\ outcome15 = "error" =>
         /\ \A j \in 1..(i15 - 1) :
               stampOf(batch15[j].id) # NULL /\ stampOf(batch15[j].id) >= now15
         /\ \A id \in Later15 :
               /\ stampOf(id) = NULL
               /\ CallsBy(id, "Task Overdue", runs15) = <<>>
               /\ \A k \in 1..Len(emitted[id]) : emitted[id][k].run # runs15
               /\ id \in UnstampedOverdue(clock)
    /\ outcomeD = "error" =>
         /\ \A j \in 1..(iD - 1) : stampOf(batchD[j].id) = nowD
         /\ \A j \in (iD + 1)..Len(batchD) :
               /\ stampOf(batchD[j].id) = batchD[j].lastOverdueNotifiedAt
               /\ CallsBy(batchD[j].id, "Overdue Reminder", runsD) = <<>>
               /\ batchD[j].id \in StampedOverdue(clock)

-----------------------------------------------------------------------------
\* A run of the scan can start: the timer's call is not blocked.
CanStart15 == ENABLED detectOverdueTasks_findMany
CanStartDaily == ENABLED sendDailyOverdueReminders_findMany

(* C11: no error escapes a scan.  Whatever the store read, the store write *)
(* or the notification sink throws, the run of detectOverdueTasks or of    *)
(* sendDailyOverdueReminders ends normally (the scan is back at rest, its  *)
(* error swallowed), and a scan at rest can always be started again, after *)
(* a failed run as after any other, as long as the model's event budget    *)
(* lasts.                                                                   *)
C11_NoErrorEscapes ==
    /\ pc15 \in {"idle", "notify", "update"}
    /\ pcD \in {"idle", "notify", "update"}
    /\ outcome15 = "error" => pc15 = "idle"
    /\ outcomeD = "error" => pcD = "idle"
    /\ (pc15 = "idle" /\ Events < MaxEvents) => CanStart15
    /\ (pcD = "idle" /\ Events < MaxEvents) => CanStartDaily

\* After a run of the 15-minute scan that threw, the next run completed;
\* the daily scan has not run, so the throw was the 15-minute scan's.
C11_Witness ==
    /\ runs15 = 2 /\ runsD = 0 /\ throws = 1
    /\ outcome15 = "completed"

-----------------------------------------------------------------------------
\* Sink calls of a run for a task that threw.
FailedBy(id, title, run) ==
    SelectSeq(notifications[id], LAMBDA c : c.title = title /\ ~c.ok /\ c.run = run)

\* The last run of the scan ended at the task because its sink call threw.
SinkFailed15(id) ==
    /\ outcome15 = "error" /\ i15 <= Len(batch15) /\ batch15[i15].id = id
    /\ FailedBy(id, "Task Overdue", runs15) # <<>>
SinkFailedDaily(id) ==
    /\ outcomeD = "error" /\ iD <= Len(batchD) /\ batchD[iD].id = id
    /\ FailedBy(id, "Overdue Reminder", runsD) # <<>>

\* A step of the 15-minute scan in which the sink call for a task throws.
SinkThrows15 ==
    /\ pc15 = "notify"
    /\ LET id == batch15[i15].id
           n == Len(notifications'[id])
       IN  /\ n = Len(notifications[id]) + 1
           /\ notifications'[id][n].title = "Task Overdue"
           /\ ~notifications'[id][n].ok

(* C12, as stated: when createForUsers fails for a task, the stamp update  *)
(* for that same task is still attempted in the same run: the step in      *)
(* which the sink call throws leaves the run at the stamp write.            *)
C12_StampAttemptedAfterSinkFailure ==
    [][SinkThrows15 => pc15' = "update"]_vars

(* C12, amended: when createForUsers throws for a task the run ends at     *)
(* once; the stamp update for that task is not attempted in that run and   *)
(* the task keeps the lastOverdueNotifiedAt it had (null in the 15-minute  *)
(* scan, the earlier stamp in the daily scan).  No task with recipients is *)
(* stamped by the 15-minute scan unless a createForUsers call for it       *)
(* returned normally.                                                       *)
C12_SinkFailureSkipsStamp ==
    /\ \A id \in TaskIds :
          SinkFailed15(id) => pc15 = "idle" /\ stampOf(id) = NULL
    /\ \A id \in TaskIds :
          SinkFailedDaily(id) =>
              /\ pcD = "idle"
              /\ stampOf(id) = batchD[iD].lastOverdueNotifiedAt
    /\ \A id \in TaskIds :
          (stampOf(id) # NULL /\ RecipientSet(tasks[id]) # {})
              => Created(id, "Task Overdue") # <<>>

\* The sink call for the second task of a batch threw: the first task is
\* stamped, the second is not.
C12_Witness ==
    \E id \in TaskIds :
        /\ SinkFailed15(id) /\ i15 = 2
        /\ stampOf(batch15[1].id) = now15 /\ stampOf(id) = NULL

-----------------------------------------------------------------------------
\* The last run of the 15-minute scan ended at the task because its stamp
\* write threw, after the run had created the task's notification.
StampFailed15(id) ==
    /\ outcome15 = "error" /\ i15 <= Len(batch15) /\ batch15[i15].id = id
    /\ CreatedBy(id, "Task Overdue", runs15) # <<>>

\* After such a failure the task has its notification and no stamp.
NotifiedButUnstamped ==
    \A id \in TaskIds :
        StampFailed15(id) =>
            /\ stampOf(id) = NULL
            /\ id \in UnstampedOverdue(clock)
            /\ Created(id, "Task Overdue") # <<>>

\* Every durable notification stays recorded.
NothingLost ==
    \A id \in TaskIds :
        /\ Len(notifications'[id]) >= Len(notifications[id])
        /\ SubSeq(notifications'[id], 1, Len(notifications[id])) = notifications[id]

(* C13, as stated: when the stamp write of a task fails in the 15-minute   *)
(* scan after its notification was created, the task keeps a null stamp    *)
(* and, being still overdue, is selected again by the next run of the scan *)
(* (stated for a next run whose query does not throw).                      *)
C13_FailedStampReselectedNext ==
    /\ []NotifiedButUnstamped
    /\ [][\A id \in TaskIds :
            (/\ Starts15 /\ StampFailed15(id) /\ outcome15' # "error"
             /\ IsOverdue(tasks[id], clock))
            => id \in Ids(batch15')]_vars

(* C13, amended: the task keeps a null stamp and its notification, and     *)
(* still matches the query of the 15-minute scan; the next run whose query *)
(* returns selects it when no more than `take` tasks match (with more it   *)
(* may take others and leave the task to a later run).  A run that selects *)
(* it and whose sink call returns creates one more notification for it, so *)
(* the failure leads to a duplicate and never to a lost notification.      *)
C13_FailedStampStaysEligible ==
    /\ []NotifiedButUnstamped
    /\ [](pc15 = "update" =>
            LET t == batch15[i15]
            IN  RecipientSet(t) # {}
                    => Len(CreatedBy(t.id, "Task Overdue", runs15)) = 1)
    /\ [][/\ NothingLost
          /\ \A id \in TaskIds :
                (/\ Starts15 /\ StampFailed15(id) /\ outcome15' # "error"
                 /\ Cardinality(UnstampedOverdue(clock)) <= Take15)
                => id \in Ids(batch15')]_vars

\* The stamp write of a task threw in the first run; the second run notified
\* the task again and stamped it.
C13_Witness ==
    \E id \in TaskIds :
        /\ Len(Created(id, "Task Overdue")) = 2
        /\ runs15 = 2 /\ throws = 1 /\ stampOf(id) = now15

-----------------------------------------------------------------------------
\* Real-time events a run of the 15-minute scan emitted for a task.
EmitsBy(id, run) == SelectSeq(emitted[id], LAMBDA e : e.run = run)

\* The run has done nothing for the row yet.
Untouched15(t) ==
    /\ stampOf(t.id) = NULL
    /\ CallsBy(t.id, "Task Overdue", runs15) = <<>>
    /\ EmitsBy(t.id, runs15) = <<>>
UntouchedDaily(t) ==
    /\ stampOf(t.id) = t.lastOverdueNotifiedAt
    /\ CallsBy(t.id, "Overdue Reminder", runsD) = <<>>

\* The run has created the row's durable notification, when the row has
\* recipients, and (15-minute scan) emitted its real-time events.
Dispatched15(t) ==
    IF RecipientSet(t) = {}
    THEN CallsBy(t.id, "Task Overdue", runs15) = <<>> /\ EmitsBy(t.id, runs15) = <<>>
    ELSE /\ Len(CreatedBy(t.id, "Task Overdue", runs15)) = 1
         /\ Len(CallsBy(t.id, "Task Overdue", runs15)) = 1
         /\ EmitsBy(t.id, runs15) # <<>>
DispatchedDaily(t) ==
    IF ReminderSet(t) = {}
    THEN CallsBy(t.id, "Overdue Reminder", runsD) = <<>>
    ELSE /\ Len(CreatedBy(t.id, "Overdue Reminder", runsD)) = 1
         /\ Len(CallsBy(t.id, "Overdue Reminder", runsD)) = 1

\* The sink call of the run for the row threw: nothing recorded, nothing emitted.
Refused15(t) ==
    /\ CreatedBy(t.id, "Task Overdue", runs15) = <<>>
    /\ Len(FailedBy(t.id, "Task Overdue", runs15)) = 1
    /\ EmitsBy(t.id, runs15) = <<>>
RefusedDaily(t) ==
    /\ CreatedBy(t.id, "Overdue Reminder", runsD) = <<>>
    /\ Len(FailedBy(t.id, "Overdue Reminder", runsD)) = 1

(* C14: within one run of a scan the tasks are processed strictly one      *)
(* after another, and for each task the durable notification is created    *)
(* first, the real-time events are emitted next (15-minute scan only) and  *)
(* the stamp is written last.  At every point of a run, a crash included:  *)
(* every task before the current one is stamped and was dispatched; the    *)
(* current task is untouched, or dispatched and not yet stamped, or was     *)
(* refused by the sink; every task after the current one is untouched.     *)
C14_SequentialNotifyThenStamp ==
    /\ \A j \in 1..Len(batch15) :
          LET t == batch15[j]
          IN  /\ j < i15 => stampOf(t.id) # NULL /\ Dispatched15(t)
              /\ j > i15 => Untouched15(t)
              /\ j = i15 =>
                    /\ stampOf(t.id) = NULL
                    /\ pc15 = "notify" => Untouched15(t)
                    /\ pc15 = "update" => Dispatched15(t)
                    /\ pc15 = "idle" => Dispatched15(t) \/ Refused15(t)
    /\ \A j \in 1..Len(batchD) :
          LET t == batchD[j]
          IN  /\ j < iD => stampOf(t.id) = nowD /\ DispatchedDaily(t)
              /\ j > iD => UntouchedDaily(t)
              /\ j = iD =>
                    /\ stampOf(t.id) = t.lastOverdueNotifiedAt
                    /\ pcD = "notify" => UntouchedDaily(t)
                    /\ pcD = "update" => DispatchedDaily(t)
                    /\ pcD = "idle" => DispatchedDaily(t) \/ RefusedDaily(t)
    /\ i15 \in 1..(Len(batch15) + 1) /\ iD \in 1..(Len(batchD) + 1)

\* Between two tasks of a run: the first, which has recipients, is notified
\* and stamped; the second, which has recipients too, is untouched.
C14_Witness ==
    /\ pc15 = "notify" /\ i15 = 2
    /\ RecipientSet(batch15[1]) # {} /\ RecipientSet(batch15[2]) # {}
    /\ stampOf(batch15[1].id) = now15 /\ Dispatched15(batch15[1])
    /\ Untouched15(batch15[2])

-----------------------------------------------------------------------------
\* A scan has notified or stamped the task, or tried to.
Touched(id) ==
    notifications[id] # <<>> \/ emitted[id] # <<>> \/ stampOf(id) # NULL

\* Every reminder call for the task comes after a 'Task Overdue'
\* notification of the task, which the 15-minute scan creates right before
\* it stamps the task.
RemindersFollowFirstNotice(id) ==
    \A b \in 1..Len(notifications[id]) :
        notifications[id][b].title = "Overdue Reminder" =>
            \E a \in 1..(b - 1) :
                notifications[id][a].title = "Task Overdue" /\ notifications[id][a].ok

(* C15: neither scan notifies or stamps a task that, when the run queried, *)
(* was soft-deleted, completed or cancelled, without dueDate, or had       *)
(* dueDate >= now; the daily scan moreover never notifies or stamps a task *)
(* whose lastOverdueNotifiedAt was null then, so every daily reminder of a *)
(* task comes after the task's stamping by the 15-minute scan.             *)
C15_OnlyQualifyingTasksTouched ==
    /\ \A k \in 1..Len(batch15) :
          /\ IsOverdue(batch15[k], now15)
          /\ batch15[k].lastOverdueNotifiedAt = NULL
    /\ \A k \in 1..Len(batchD) :
          /\ IsOverdue(batchD[k], nowD)
          /\ batchD[k].lastOverdueNotifiedAt # NULL
    /\ \A id \in TaskIds :
          /\ Touched(id) => IsOverdue(tasks[id], clock)
          /\ stampOf(id) # NULL => tasks[id].dueDate < stampOf(id)
          /\ Created(id, "Overdue Reminder") # <<>> => stampOf(id) # NULL
          /\ RemindersFollowFirstNotice(id)

\* Both scans have completed a run and a reminder was sent, and the table
\* holds a soft-deleted task, overdue otherwise, that neither scan touched.
C15_Witness ==
    /\ outcome15 = "completed" /\ outcomeD = "completed"
    /\ \E id \in TaskIds : Created(id, "Overdue Reminder") # <<>>
    /\ \E id \in TaskIds :
          /\ tasks[id].isDeleted /\ tasks[id].dueDate < now15
          /\ ~Touched(id)

-----------------------------------------------------------------------------
\* A run of each scan is under way.
Overlap == pc15 # "idle" /\ pcD # "idle"

\* Position of a task in a batch that holds it.
IndexIn(batch, id) == CHOOSE k \in 1..Len(batch) : batch[k].id = id

(* C16: when a run of the 15-minute scan and a run of the daily scan       *)
(* overlap, they work on disjoint sets of tasks, except for tasks that the *)
(* 15-minute run stamped between its query and the daily run's query.  A   *)
(* task is then in neither batch, in one, or in both and stamped by both   *)
(* runs.  No interleaving adds a 'Task Overdue' notification: one run      *)
(* creates at most one per task, and a task never has more of them than    *)
(* one plus the number of calls that threw (so at most one when nothing    *)
(* throws); and a task a run has processed never has a null stamp.         *)
C16_OverlapIsBounded ==
    /\ Overlap =>
          \A id \in Ids(batch15) \cap Ids(batchD) :
              /\ IndexIn(batch15, id) < i15
              /\ batch15[IndexIn(batch15, id)].lastOverdueNotifiedAt = NULL
              /\ batchD[IndexIn(batchD, id)].lastOverdueNotifiedAt >= now15
              /\ stampOf(id) \in
                    {batchD[IndexIn(batchD, id)].lastOverdueNotifiedAt, nowD}
    /\ \A id \in TaskIds :
          /\ \A r \in 1..runs15 : Len(CreatedBy(id, "Task Overdue", r)) <= 1
          /\ Len(Created(id, "Task Overdue")) <= 1 + throws
    /\ \A j \in 1..Len(batch15) : j < i15 => stampOf(batch15[j].id) # NULL
    /\ \A j \in 1..Len(batchD) : j < iD => stampOf(batchD[j].id) # NULL

\* A task stamped by both of two overlapping runs: the 15-minute run, still
\* under way, stamped it, and the daily run that started a tick later
\* selected it and stamped it again; it has one 'Task Overdue' notification.
C16_Witness ==
    /\ pc15 # "idle" /\ outcomeD = "completed" /\ throws = 0
    /\ nowD > now15
    /\ \E id \in Ids(batch15) \cap Ids(batchD) :
          /\ stampOf(id) = nowD
          /\ batchD[IndexIn(batchD, id)].lastOverdueNotifiedAt = now15
          /\ Len(Created(id, "Task Overdue")) = 1

-----------------------------------------------------------------------------
\* What one run of the daily scan that ended without error did for the row
\* it read as t: exactly one reminder, addressed to the assignee and the
\* assignment users, when there are any (none otherwise).
RemindedOnce(t) ==
    LET made == CreatedBy(t.id, "Overdue Reminder", runsD)
    IN  IF ReminderSet(t) = {}
        THEN Len(made) = 0
        ELSE /\ Len(made) = 1
             /\ Range(made[1].userIds) = ReminderSet(t)

-----------------------------------------------------------------------------
\* A run of the daily scan starts after a run that ended without error, its
\* query returns, and the tasks that match are those that matched then.
DailyRunsAgain ==
    /\ StartsDaily /\ outcomeD = "completed" /\ outcomeD' # "error"
    /\ MatchingDaily(clock) = matchedD

\* One run of the daily scan: at most one reminder per task; the task at
\* the stamp write has this run's reminder whatever reminders it had before
\* (when it has reminder recipients); every task the run is done with has
\* the run's now as its stamp, with or without recipients.
OneReminderPerRun ==
    /\ \A id \in TaskIds : \A r \in 1..runsD :
          Len(CreatedBy(id, "Overdue Reminder", r)) <= 1
    /\ pcD = "update" =>
          Len(CreatedBy(batchD[iD].id, "Overdue Reminder", runsD))
              = IF ReminderSet(batchD[iD]) = {} THEN 0 ELSE 1
    /\ \A j \in 1..Len(batchD) : j < iD => stampOf(batchD[j].id) = nowD

-----------------------------------------------------------------------------
\* The users the events of a run for a task went to, in order.
EmittedTo(id, run) ==
    LET ev == EmitsBy(id, run)
    IN  [k \in 1..Len(ev) |-> ev[k].userId]

(* C19: real-time fan-out.  For each task a run of the 15-minute scan      *)
(* notified, the run emitted exactly one 'notification.new' event per      *)
(* member of the recipient set, and only once the durable notification of  *)
(* the task was created: when the run is at the stamp write of a task, its *)
(* events for the task went to the users of the notification it created,   *)
(* each once, and there are none when the task has no recipients; a run    *)
(* whose sink call threw emitted nothing for the task.  The daily scan     *)
(* emits no event: at all times a task has as many events as recipients    *)
(* for each of its 'Task Overdue' notifications, whatever reminders it has.*)
C19_OneEventPerRecipient ==
    /\ pc15 = "update" =>
          LET t == batch15[i15]
              made == CreatedBy(t.id, "Task Overdue", runs15)
              to == EmittedTo(t.id, runs15)
          IN  IF RecipientSet(t) = {}
              THEN made = <<>> /\ to = <<>>
              ELSE /\ Len(made) = 1 /\ to = made[1].userIds
                   /\ NoDuplicates(to)
                   /\ Range(to) = RecipientSet(t)
    /\ \A id \in TaskIds : SinkFailed15(id) => EmitsBy(id, runs15) = <<>>
    /\ \A id \in TaskIds :
          Len(emitted[id]) =
              Len(Created(id, "Task Overdue")) * Cardinality(RecipientSet(tasks[id]))

\* A task with three recipients, one of them named twice in its fields, has
\* three events and one 'Task Overdue' notification, and a reminder since.
C19_Witness ==
    \E id \in TaskIds :
        /\ Cardinality(RecipientSet(tasks[id])) = 3
        /\ Len(emitted[id]) = 3
        /\ Len(Created(id, "Task Overdue")) = 1
        /\ Created(id, "Overdue Reminder") # <<>>

-----------------------------------------------------------------------------
\* The tasks that qualified at the first tick, none of them stamped then.
Backlog == {id \in TaskIds : IsOverdue(tasks[id], Clock0)}

\* No task has fallen due since.
NoNewQualifying == {id \in TaskIds : IsOverdue(tasks[id], clock)} = Backlog

\* What the runs of the 15-minute scan so far can have stamped at most: a
\* full batch for every run that ended, and the tasks the current run is
\* done with.
Drained ==
    IF pc15 = "idle" THEN runs15 * Take15
    ELSE (runs15 - 1) * Take15 + (i15 - 1)

Max(a, b) == IF a > b THEN a ELSE b

(* C20: backlog drain.  With N qualifying unstamped tasks, no failure and  *)
(* no task falling due since, every run of the 15-minute scan stamps       *)
(* min(take, remaining) of them, whatever rows the store returns and in    *)
(* whatever order: after r runs max(0, N - r * take) are left, and after   *)
(* ceil(N / take) runs none (`take` is 100 in the source and 2 here).      *)
C20_BacklogDrains ==
    (throws = 0 /\ NoNewQualifying) =>
        LET N == Cardinality(Backlog)
            left == {id \in Backlog : stampOf(id) = NULL}
        IN  /\ Cardinality(left) = Max(0, N - Drained)
            /\ (pc15 = "idle" /\ runs15 >= Ceil(N, Take15)) => left = {}

\* More tasks qualified than one run takes: the last of the runs it needs
\* took the rest, and none is left.
C20_Witness ==
    /\ throws = 0 /\ NoNewQualifying
    /\ Cardinality(Backlog) > Take15
    /\ runs15 = Ceil(Cardinality(Backlog), Take15) /\ pc15 = "idle"
    /\ \A id \in Backlog : stampOf(id) # NULL
    /\ Len(batch15) = Cardinality(Backlog) - Take15

-----------------------------------------------------------------------------
(* C21: the frame of the two scans *)

\* A step of one of the two scans.
ScanStep == <<pc15, i15, pcD, iD, runs15, runsD, throws>>' #
            <<pc15, i15, pcD, iD, runs15, runsD, throws>>

\* The row without its stamp.
Unstamped(row) == [row EXCEPT !.lastOverdueNotifiedAt = NULL]

\* The step writes the stamp of row id as the update of a running scan does:
\* the row is the one the scan's loop is at, the value is the scan's `now`.
StampWrite(id) ==
    \/ /\ pc15 = "update" /\ batch15[i15].id = id
       /\ tasks'[id].lastOverdueNotifiedAt = now15
    \/ /\ pcD = "update" /\ batchD[iD].id = id
       /\ tasks'[id].lastOverdueNotifiedAt = nowD

\* C21: a step of a scan leaves every field of every row but
\* lastOverdueNotifiedAt as the store holds it at that step, a value a user
\* wrote since the scan read the row included, and changes
\* lastOverdueNotifiedAt only of the row its loop is at, to the run's `now`.
C21_ScansWriteOnlyTheStamp ==
    [][ScanStep =>
          \A id \in TaskIds :
             /\ Unstamped(tasks'[id]) = Unstamped(tasks[id])
             /\ tasks'[id].lastOverdueNotifiedAt # tasks[id].lastOverdueNotifiedAt
                   => StampWrite(id)]_vars

\* A row that a 15-minute run has stamped after a user changed its status:
\* the row holds the user's status, not the one the run read.
C21_Witness ==
    \E k \in 1..Len(batch15) :
       /\ k < i15
       /\ tasks[batch15[k].id].status # batch15[k].status
       /\ tasks[batch15[k].id].lastOverdueNotifiedAt = now15
       /\ \E j \in 1..Len(batchD) :
             /\ j < iD /\ tasks[batchD[j].id].status \notin {batchD[j].status, "completed"}
             /\ tasks[batchD[j].id].lastOverdueNotifiedAt = nowD

-----------------------------------------------------------------------------
(* C27: the stamp never decreases and is never in the future *)

\* The `now` of the run that writes the stamp of row id in this step.
WriterNow(id) ==
    IF pc15 = "update" /\ batch15[i15].id = id /\ i15' = i15 + 1 THEN now15 ELSE nowD

\* The dueDate of row id as the run that writes its stamp read it.
WriterDueDate(id) ==
    IF pc15 = "update" /\ batch15[i15].id = id /\ i15' = i15 + 1
    THEN batch15[i15].dueDate ELSE batchD[iD].dueDate

\* C27: a stamp that a step writes is the `now` of the writing run, which is
\* not after the clock and strictly after the dueDate the run read; and it is
\* not before the stamp the row had.
C27_StampNeverDecreases ==
    [][\A id \in TaskIds :
          tasks'[id].lastOverdueNotifiedAt # stampOf(id)
          => /\ tasks'[id].lastOverdueNotifiedAt = WriterNow(id)
             /\ WriterNow(id) <= clock
             /\ WriterNow(id) > WriterDueDate(id)
             /\ tasks'[id].lastOverdueNotifiedAt >= stampOf(id)]_vars

-----------------------------------------------------------------------------
(* C28: the day count of a reminder is at least 1 *)

\* The 'Overdue Reminder' calls made for task id, by any run.
AllReminders(id) == Created(id, "Overdue Reminder")

\* C28: every daily reminder sent carries a day count of at least 1, the
\* task having been due strictly before the run's now; the day count of a
\* task overdue by one millisecond is 1, by exactly 24 hours 1, by 24 hours
\* and one millisecond 2, and it is at least 1 for every overdue time.
C28_DayCountAtLeastOne ==
    /\ \A id \in TaskIds : \A k \in 1..Len(AllReminders(id)) :
          /\ AllReminders(id)[k].daysDiff >= 1
          /\ tasks[id].dueDate # NULL /\ tasks[id].dueDate < clock
    /\ \A id \in Ids(batchD) : pcD # "idle" => tasks[id].dueDate < nowD
    /\ daysDiff(Clock0, Clock0 - 1) = 1
    /\ daysDiff(Clock0, Clock0 - DayMs) = 1
    /\ daysDiff(Clock0, Clock0 - (DayMs + 1)) = 2
    /\ \A late \in Overdues : daysDiff(Clock0, Clock0 - late) >= 1

\* A reminder with day count 1, for a task due exactly 24 hours before the
\* run started, and one with day count 2 from a run a tick later.
C28_Witness ==
    \E id \in TaskIds : \E k, j \in 1..Len(AllReminders(id)) :
       /\ AllReminders(id)[k].daysDiff = 1 /\ tasks[id].dueDate = Clock0 - DayMs
       /\ AllReminders(id)[j].daysDiff = 2

-----------------------------------------------------------------------------
(* C29: no reminder starvation *)

\* Task id is still overdue, already notified and has reminder recipients.
AwaitsReminder(id) ==
    whereDaily(tasks[id], clock) /\ ReminderSet(tasks[id]) # {}

\* C29: over successive failure-free daily runs on a fixed table, every
\* still-overdue, already-notified task with recipients eventually gets an
\* 'Overdue Reminder', however many such tasks there are and in whatever
\* order the store returns them.
C29_NoStarvation ==
    \A id \in TaskIds :
        AwaitsReminder(id) ~> (Created(id, "Overdue Reminder") # <<>>)

-----------------------------------------------------------------------------
(* C26: the path-traversal guard of getStream *)

\* The file that the path leads to is there.
FileThere == Canonical(fin.fs, <<>>, fin.storagePath) \in fin.fs.files

\* The real path of the file lies inside the real upload directory: the
\* segments of the directory are a proper prefix of the segments of the file.
InsideUploadDir ==
    LET file == Canonical(fin.fs, <<>>, fin.storagePath)
        dir == Canonical(fin.fs, <<>>, uploadDir)
    IN  Len(file) > Len(dir) /\ SubSeq(file, 1, Len(dir)) = dir

\* C26: for either provider value, getStream returns a read stream only for
\* a file whose real path lies inside the real upload directory, throws
\* 'Access denied' for a file that is there but outside it, a sibling
\* directory whose name starts with the upload directory's name included,
\* and throws 'File not found' for a missing file.
C26_PathTraversalGuard ==
    "getStream" \in fout.done =>
        /\ fout.getStream.error = "" => FileThere /\ InsideUploadDir
        /\ FileThere /\ ~InsideUploadDir => fout.getStream.error = "Access denied"
        /\ ~FileThere => fout.getStream.error = "File not found"

-----------------------------------------------------------------------------
(* C22: the MIME allow-list *)

\* The call of slot p is a create or addAttachments that passed validation.
Uploading(p) == req[p].op \in {"create", "addAttachments"} /\ req[p].pc # "idle"

\* C22: create and addAttachments reject every file whose MIME type is not
\* in ALLOWED_MIMES: no call that passed validation carries such a file.
C22_MimeAllowListEnforced ==
    \A p \in Procs :
        Uploading(p) =>
            \A k \in 1..Len(req[p].files) : req[p].files[k].mimetype \in ALLOWED_MIMES

-----------------------------------------------------------------------------
(* C23: all-or-nothing validation on upload *)

\* The file has a blocked extension, an extension outside the allow-list
\* (compared in lower case), or a size above the maximum.
Refused(file) ==
    LET ext == Join(toLowerCase(extname(file.originalname)))
    IN  \/ ext \in BLOCKED_EXTENSIONS
        \/ ext \notin ALLOWED_EXTENSIONS
        \/ file.size > maxFileSize

\* the files of the requests that are refused
RefusedFiles == {file \in Files : Refused(file)}

\* More files than allowed, or a refused file anywhere in the list.
BadFiles(files) ==
    \/ Len(files) > maxFilesPerUpdate
    \/ \E k \in 1..Len(files) : files[k] \in RefusedFiles

\* In this step slot p answers a create or addAttachments given bad files.
AnswersBadFiles(p) ==
    /\ res'[p] # res[p]
    /\ res'[p].op \in {"create", "addAttachments"}
    /\ BadFiles(res'[p].files)

\* After this step no slot is uploading the files of a bad request.
NoBadUpload ==
    \A p \in Procs :
        (req'[p].op \in {"create", "addAttachments"} /\ req'[p].pc # "idle")
            => ~BadFiles(req'[p].files)

\* C23 as stated: a create or addAttachments given too many files or a
\* refused file, also after a valid one, fails with BadRequest and creates
\* no daily-update row, no attachment row and no stored file.
C23_BadFilesAlwaysBadRequest ==
    [][/\ NoBadUpload
       /\ \A p \in Procs :
             AnswersBadFiles(p) =>
                 /\ res'[p].status = "BadRequest"
                 /\ UNCHANGED <<dailyUpdate, dailyUpdateAttachment, stored>>]_vars

\* C23, amended: such a call fails with BadRequest, or, for addAttachments
\* on an update that does not exist or is soft-deleted, with NotFound; in
\* both cases before anything is persisted.
C23_AllOrNothingValidation ==
    [][/\ NoBadUpload
       /\ \A p \in Procs :
             AnswersBadFiles(p) =>
                 /\ \/ res'[p].status = "BadRequest"
                    \/ /\ res'[p].status = "NotFound"
                       /\ res'[p].op = "addAttachments"
                       /\ \/ ~dailyUpdate[res'[p].id].there
                          \/ dailyUpdate[res'[p].id].isDeleted
                 /\ UNCHANGED <<dailyUpdate, dailyUpdateAttachment, stored>>]_vars

\* A create given a valid file followed by a blocked one, and an
\* addAttachments given a valid file followed by an oversized one, have both
\* failed with BadRequest.
C23_Witness ==
    /\ res["A"].op = "create" /\ res["A"].files = <<Report, Tool>>
    /\ res["A"].status = "BadRequest"
    /\ res["B"].op = "addAttachments" /\ res["B"].files = <<Report, Scan>>
    /\ res["B"].status = "BadRequest"

-----------------------------------------------------------------------------
(* C24: the maximum number of files of an update *)

\* C24: after any create, addAttachments and deleteAttachment calls,
\* concurrent addAttachments on one update included, no daily update has
\* more than maxFilesPerUpdate attachment rows.
C24_AtMostMaxFiles ==
    \A id \in UpdateIds : Cardinality(AttachmentsOf(id)) <= maxFilesPerUpdate

-----------------------------------------------------------------------------
(* C25: a soft-deleted daily update is inaccessible *)

\* the calls that C25 names
Accesses == {"findById", "update", "markAsRead", "addAttachments", "togglePin",
             "getAttachmentStream"}

\* C25: once delete(id) has succeeded, a later findById, update, markAsRead,
\* addAttachments or togglePin on that id, or download of one of its
\* attachments, goes no further than its first lookup and fails with NotFound.
C25_DeletedIsInaccessible ==
    \A p \in Procs :
        /\ ~(req[p].pc # "idle" /\ req[p].op \in Accesses /\ req[p].late)
        /\ (res[p].op \in Accesses /\ res[p].late) => res[p].status = "NotFound"

-----------------------------------------------------------------------------
(* C30: the unread count *)

\* the non-deleted updates for which the user has no read record
Unread(userId) ==
    Cardinality({id \in NotDeleted : <<id, userId>> \notin dailyUpdateRead})

\* Slot p answers a getUnreadCount or findAll in this step, and the number of
\* updates it counted before is still the number of non-deleted updates, so
\* that no other call has come between its two counts to any effect.
CountsAlone(p) ==
    /\ req[p].op \in {"getUnreadCount", "findAll"}
    /\ req[p].pc = "countReads"
    /\ req'[p].pc = "idle"
    /\ req[p].n = Cardinality(NotDeleted)

\* C30: the unread count that getUnreadCount and findAll return for a user
\* is the number of non-deleted updates that the user has no read record
\* for, read records of soft-deleted updates notwithstanding.
C30_UnreadCountExact ==
    [][\A p \in Procs :
          CountsAlone(p) => res'[p].value = Unread(req[p].userId)]_vars

====
